---- MODULE Spec2Model ----
(***************************************************************************)
(* Pocket TTS (src/rust/pocket-tts-ios): the transformer backbone with its *)
(* per-layer KV caches and rotary encoding (FlowLM), the text-to-speech    *)
(* pipeline with its streaming loop (PocketTTSModel) and the engine that   *)
(* guards one model instance with mutexes (PocketTTSEngine).               *)
(*                                                                         *)
(* The specifications share the variables:                                 *)
(*   SpecFlowLM    calls of FlowLM::forward / reset_cache in any order     *)
(*   SpecModel     calls of PocketTTSModel on one thread (&mut self)       *)
(*   Spec          synthesis calls of PocketTTSEngine from several threads *)
(*   SpecConfig    configuration calls of PocketTTSEngine from several     *)
(*                 threads                                                 *)
(*   SpecValidate  TTSConfig::validate on one configuration                *)
(*   SpecSampler   calls of MLPSampler::set_num_steps                      *)
(*   SpecTokenizer PocketTokenizer::encode, then decode, on one text       *)
(*   SpecDecoder   SEANetDecoder::forward on a number of latent frames     *)
(***************************************************************************)
EXTENDS Integers, Sequences, FiniteSets, TLC

\* ---------------------------------------------------------------- constants
num_layers == 6
num_heads == 16
head_dim == 64
max_seq_len_default == 2048
chunk_size == 32

\* ------------------------------------------------------------------- bounds
\* a small rotary table, so that the range check of RotaryEmbedding::forward
\* is reached with a few cached positions
SmallMaxSeqLen == 18
\* tokens of one forward pass and of one cached run in SpecFlowLM
MaxPassTokens == 2
MaxRunTokens == 4
\* longest token sequence of a synthesis call
MaxTokens == 33
\* threads that call the engine
NumThreads == 2
\* largest voice_index, and largest step count, a caller passes
MaxVoiceIndex == 8
MaxStepsArg == 5
\* set_num_steps calls in a row
MaxSamplerCalls == 3
\* chars of a text to encode
MaxTextLen == 3
\* latent frames of a decoder call
MaxFrames == 20
\* rows of a voice embedding, and batch size and length of a hidden state
MaxPromptSeq == 3
MaxBatch == 2
MaxSeqArg == 4
\* samples of a buffer to normalize
MaxSamples == 3
\* queries of a causal mask, and positions cached before them
MaxMaskQueries == 8
MaxMaskCached == 8
\* input length, kernel size and dilation of a causal convolution
MaxConvLen == 8
MaxKernel == 7
MaxDilation == 2
\* decode_streaming calls in a row, and latent frames of one chunk
MaxDecodeCalls == 3
MaxChunkFrames == 4

Threads == 1 .. NumThreads
Layers == 0 .. (num_layers - 1)
Heads == 0 .. (num_heads - 1)
\* number of layers that appended to their cache before an array operation
\* of the pass failed; NoFault: no array operation fails
NoFault == num_layers + 1
Faults == 0 .. num_layers

VARIABLES
    max_seq_len,    \* FlowLMConfig.max_seq_len, the rows of the rotary table
    kv_caches,      \* FlowLM.kv_caches: per layer the cached (rotated) keys
    fl_sum,         \* history: tokens of the successful cached passes since the last reset
    fl_failed,      \* history: a cached pass failed since the last reset
    fl_last,        \* history: the last FlowLM call
    fl_views,       \* history: per layer, the attention inputs of every position of the cached run
    model_config,   \* PocketTTSModel.config
    st_active,      \* a synthesize_streaming call is inside its chunk loop
    st_n,           \* token_ids.len() of that call
    st_i,           \* index of the next chunk of the loop
    st_kind,        \* history: the most recent synthesis call (none, oneshot, stream, notloaded)
    st_end,         \* history: how it ended (running, completed, stopped, failed)
    st_calls,       \* history: the chunk_callback invocations of that call
    st_pass,        \* history: the forward passes of that call, and what the last one found cached
    st_prev,        \* history: the call before it ended early and left keys cached
    result,         \* history: what the most recent synthesis call returned
    cfg_ret,        \* history: the most recent configure call that returned
    model_loaded,   \* PocketTTSEngine.model holds a model
    config,         \* PocketTTSEngine.config
    is_cancelled,   \* PocketTTSEngine.is_cancelled
    local_cancelled,\* the flag start_streaming creates for its callback
    model_lock,     \* the thread that holds the mutex of PocketTTSEngine.model (0: free)
    pc,             \* per thread: where it is in its engine call
    arg,            \* per thread: the configuration of its configure call
    h_events,       \* history: the handler calls of the most recent start_streaming
    cancel_at,      \* history: the chunk in generation when cancel() was first called (-1: not called)
    last_valid,     \* history: the argument of the last configure call that passed validation
    cfg_seq,        \* history: no two configure calls have overlapped so far
    fl_pass,        \* history: the last FlowLM::forward call (cached positions, new tokens, range error)
    sampler_num_steps, \* MLPSampler.num_steps
    custom_voice,   \* PocketTTSModel.custom_voice
    voice_count,    \* VoiceBank.voices.len()
    st_rounds,      \* history: the sampler call of the most recent pass (rounds run, steps configured)
    st_voice,       \* history: the voice the most recent synthesis call passed to FlowLM::forward
    sm_calls,       \* history: the arguments of the set_num_steps calls so far
    v_cfg,          \* the TTSConfig validate() is called on
    v_ret,          \* what validate() returned
    tk_vocab,       \* PocketTokenizer.token_to_id
    tk_text,        \* the text encode() is called on, as its chars
    tk_pc,          \* where encode() is (scan, done) and whether decode() ran (decoded)
    tk_i,           \* encode: i
    tk_tokens,      \* encode: tokens
    tk_steps,       \* history: the iterations of the scan loop
    tk_decoded,     \* what decode() returned for the tokens of encode()
    dec_frames,     \* the latent frames SEANetDecoder::forward is called on
    dec_stage,      \* how many of its layers have run
    dec_len,        \* the length of x along the time axis
    ex_embedding,   \* VoiceEmbedding.embedding, as its dims
    ex_batch,       \* the batch size of the hidden state of the pass
    ex_seq,         \* the sequence length of the hidden state of the pass
    ex_stage,       \* 0: before expand_to_seq, 1: expanded, 2: added
    ex_out,         \* the dims of what expand_to_seq returned
    ex_sum,         \* what hidden + voice_expanded gave (none, ok, shape_mismatch)
    nz_in,          \* the samples normalize() is called on
    nz_out,         \* the samples after the call
    nz_done,        \* normalize() has returned
    mk_q,           \* q_len of create_causal_mask
    mk_kv,          \* kv_len of create_causal_mask
    mk_mask,        \* the Vec<f32> it builds, row after row
    sd_tail,        \* previous_tail of the streaming loop
    sd_n,           \* the decode_streaming calls made so far
    sd_last,        \* history: the arguments and the result of the last decode_streaming
    cv_len,         \* the length of the input of CausalConv1d::forward
    cv_kernel,      \* CausalConv1d.kernel_size
    cv_dilation,    \* the dilation of its Conv1dConfig
    cv_out,         \* what forward returned: length and, per position, the inputs read
    wv_orig,        \* per thread: original_config of its synthesize_with_voice call
    wv_call,        \* per thread, history: its synthesize_with_voice call in progress
    wv_hist         \* history: the last synthesize_with_voice call that returned

flVars == <<max_seq_len, kv_caches, fl_sum, fl_failed, fl_last, fl_views, fl_pass>>
flHistory == <<max_seq_len, fl_sum, fl_failed, fl_last, fl_views, fl_pass>>
sessVars == <<st_active, st_n, st_i, st_kind, st_end, st_calls, st_pass, result, st_rounds, st_voice>>
modelVars == <<model_config, st_active, st_n, st_i, st_kind, st_end, st_calls, st_pass, st_prev,
               result, cfg_ret, st_rounds, st_voice>>
engineVars == <<model_loaded, config, is_cancelled, local_cancelled, model_lock, pc, arg,
                h_events, cancel_at, last_valid, cfg_seq>>
validateVars == <<v_cfg, v_ret>>
tokVars == <<tk_vocab, tk_text, tk_pc, tk_i, tk_tokens, tk_steps, tk_decoded>>
decVars == <<dec_frames, dec_stage, dec_len>>
\* what the calls of FlowLM, PocketTTSModel and PocketTTSEngine modelled so
\* far leave alone: the sampler's step count, the voice bank, the custom
\* voice and the state of the functions that have a specification of their own
expandVars == <<ex_embedding, ex_batch, ex_seq, ex_stage, ex_out, ex_sum>>
normVars == <<nz_in, nz_out, nz_done>>
maskVars == <<mk_q, mk_kv, mk_mask>>
streamDecVars == <<sd_tail, sd_n, sd_last>>
convVars == <<cv_len, cv_kernel, cv_dilation, cv_out>>
withVoiceVars == <<wv_orig, wv_call, wv_hist>>
fnVars == <<expandVars, normVars, maskVars, streamDecVars, convVars, withVoiceVars>>
restVars == <<sampler_num_steps, custom_voice, voice_count, sm_calls, validateVars, tokVars, decVars,
              fnVars>>
vars == <<flVars, modelVars, engineVars, restVars>>

\* ------------------------------------------------------------ rotary.rs
\* RotaryEmbedding::forward reads the sequence length from dim 1 of q
RopeSeqLen(q_dims) == q_dims[2]

RopeFails(q_dims, offset, max) == offset + RopeSeqLen(q_dims) > max

\* apply_rotary reshapes the narrowed cos/sin rows to [1, rows, 1, half_dim]:
\* the element with index c1 along dim 1 (any index c2 along dim 2) is
\* rotated with table row offset + c1
RopeRow(offset, c1, c2) == offset + c1

\* ------------------------------------------------------------ attention.rs
\* q and k after transpose(1, 2): [batch, num_heads, seq, head_dim]
AttnDims(seq_len) == <<1, num_heads, seq_len, head_dim>>

\* table row that rotates the vector of head h of the token at index i of the pass
RowForHeadTok(offset, h, i) == RopeRow(offset, h, i)

\* A cache is the concatenation (along the sequence axis) of the key tensors
\* of the passes that appended to it. A key tensor is [first, len, off]: the
\* keys of the tokens first .. first+len-1, rotated at rotary offset off.
RECURSIVE KVCacheSeqLen(_)
KVCacheSeqLen(cache) ==
    IF cache = << >> THEN 0 ELSE Head(cache).len + KVCacheSeqLen(Tail(cache))

KVCacheUpdate_replace(cache, k) == <<k>>
KVCacheUpdate(cache, k) == Append(cache, k)

KVCacheClear == << >>

\* create_causal_mask, line 118: query i may attend key j
MaskAllows_strict(i, j, q_len, kv_len) == j < i + (kv_len - q_len)
MaskAllows(i, j, q_len, kv_len) == j <= i + (kv_len - q_len)

\* create_causal_mask, lines 115-127: the Vec<f32> of q_len rows of kv_len
\* entries each, 0.0 or -inf, read as a [1, 1, q_len, kv_len] tensor
NEG_INFINITY == -1
CreateCausalMask(q_len, kv_len) ==
    [n \in 1 .. q_len * kv_len |->
        LET i == (n - 1) \div kv_len
            j == (n - 1) % kv_len
        IN  IF MaskAllows(i, j, q_len, kv_len) THEN 0 ELSE NEG_INFINITY]
MaskAt(mask, kv_len, i, j) == mask[i * kv_len + j + 1]
\* forward, lines 94-100: the mask is added to the scores before the softmax,
\* which gives weight 0 to the keys at -inf
Attends(mask, kv_len, i, j) == MaskAt(mask, kv_len, i, j) # NEG_INFINITY

\* MultiHeadAttention::forward on the tokens first .. first+seq_len-1
AttnOffset(cache, use_cache) == IF use_cache THEN KVCacheSeqLen(cache) ELSE 0

AttnKeys(cache, first, seq_len, use_cache) ==
    LET k == [first |-> first, len |-> seq_len, off |-> AttnOffset(cache, use_cache)]
    IN  IF use_cache THEN KVCacheUpdate(cache, k) ELSE <<k>>

AttentionForward(cache, first, seq_len, use_cache, max) ==
    IF RopeFails(AttnDims(seq_len), AttnOffset(cache, use_cache), max)
    THEN [ok |-> FALSE, cache |-> cache]
    ELSE [ok |-> TRUE,
          cache |-> IF use_cache THEN AttnKeys(cache, first, seq_len, use_cache) ELSE cache]

\* the single keys of a concatenation of key tensors, in order: [tok, off, idx]
\* is the key of token tok, rotated at offset off as index idx of its pass
RECURSIVE KeySeq(_)
KeySeq(kv) ==
    IF kv = << >> THEN << >>
    ELSE [i \in 1 .. Head(kv).len |->
             [tok |-> Head(kv).first + i - 1, off |-> Head(kv).off, idx |-> i - 1]]
         \o KeySeq(Tail(kv))

\* the attention inputs of the query at index i of the pass: the query and
\* the keys the causal mask lets it attend
AttentionView(cache, first, seq_len, use_cache, i) ==
    LET keys == KeySeq(AttnKeys(cache, first, seq_len, use_cache))
        kv_len == Len(keys)
    IN  [q |-> [tok |-> first + i, off |-> AttnOffset(cache, use_cache), idx |-> i],
         keys |-> {keys[j + 1] : j \in {jj \in 0 .. (kv_len - 1) : MaskAllows(i, jj, seq_len, kv_len)}}]

\* ------------------------------------------------------------ flowlm.rs
\* the layer loop of FlowLM::forward from layer l on; range: the pass failed
\* in the range check of RotaryEmbedding::forward
RECURSIVE RunLayers(_, _, _, _, _, _, _)
RunLayers(caches, l, first, seq_len, use_cache, max, fault) ==
    IF l = num_layers
    THEN [ok |-> fault # num_layers, caches |-> caches, range |-> FALSE]
    ELSE IF fault = l
    THEN [ok |-> FALSE, caches |-> caches, range |-> FALSE]
    ELSE LET r == AttentionForward(caches[l], first, seq_len, use_cache, max)
         IN  IF ~r.ok
             THEN [ok |-> FALSE, caches |-> caches, range |-> TRUE]
             ELSE RunLayers([caches EXCEPT ![l] = r.cache],
                            l + 1, first, seq_len, use_cache, max, fault)

FlowLMForward(caches, first, seq_len, use_cache, max, fault) ==
    RunLayers(caches, 0, first, seq_len, use_cache, max, fault)

\* a forward call as seen by its caller: the positions layer 0 had cached
\* (the offset of the pass), the new tokens, whether every earlier pass of
\* the run succeeded and whether this one failed with the range error
NoPass == [done |-> FALSE, cached |-> 0, new |-> 0, clean |-> TRUE, range_error |-> FALSE]
ForwardRecord(caches, seq_len, use_cache, clean, r) ==
    [done |-> TRUE, cached |-> AttnOffset(caches[0], use_cache), new |-> seq_len,
     clean |-> clean, range_error |-> r.range]

FlowLMResetCache_noop(caches) == caches
FlowLMResetCache(caches) == [l \in Layers |-> KVCacheClear]

FlowLMCacheSeqLen(caches) == KVCacheSeqLen(caches[0])

\* ------------------------------------------------------------ config.rs
\* TTSConfig; temperature, top_p and speed in tenths
DefaultConfig ==
    [voice_index |-> 0, temperature |-> 7, top_p |-> 9, speed |-> 10, consistency_steps |-> 2]

\* temperature, top_p and speed are f32: besides the numbers (in tenths) an
\* f32 can be NaN, and every ordered comparison with NaN is false
NaN == -1000
FLt(a, b) == a # NaN /\ b # NaN /\ a < b
FGt(a, b) == a # NaN /\ b # NaN /\ a > b

\* TTSConfig::validate: "Ok" or the field the message starts with
Validate(c) ==
    IF c.voice_index > 7 THEN "Voice index"
    ELSE IF FLt(c.temperature, 0) \/ FGt(c.temperature, 10) THEN "Temperature"
    ELSE IF FLt(c.top_p, 1) \/ FGt(c.top_p, 10) THEN "Top-P"
    ELSE IF FLt(c.speed, 5) \/ FGt(c.speed, 20) THEN "Speed"
    ELSE IF c.consistency_steps < 1 \/ c.consistency_steps > 4 THEN "Consistency steps"
    ELSE "Ok"

\* the configurations callers pass: the default, two other valid ones and
\* one out-of-range value per field
ConfigArgs ==
    { DefaultConfig,
      [DefaultConfig EXCEPT !.voice_index = 7],
      [DefaultConfig EXCEPT !.consistency_steps = 4, !.temperature = 5],
      [DefaultConfig EXCEPT !.voice_index = 8],
      [DefaultConfig EXCEPT !.temperature = 11],
      [DefaultConfig EXCEPT !.top_p = 0],
      [DefaultConfig EXCEPT !.speed = 21],
      [DefaultConfig EXCEPT !.consistency_steps = 0] }

\* ------------------------------------------------------------ mlp.rs
\* usize::clamp
Clamp(n, lo, hi) == IF n < lo THEN lo ELSE IF n > hi THEN hi ELSE n

\* MLPSampler::new
SamplerNew == 2

\* MLPSampler::set_num_steps: the new num_steps
SetNumSteps_raw(steps) == steps
SetNumSteps(steps) == Clamp(steps, 1, 4)

\* MLPSampler::sample: the rounds of the loop. Value 0 is the argument x, value
\* r the result of top_p_sample in round r; a round is [input, output].
RECURSIVE SampleLoop(_, _, _, _)
SampleLoop(round, num_steps, current, rounds) ==
    IF round > num_steps THEN rounds
    ELSE SampleLoop(round + 1, num_steps, round,
                    Append(rounds, [input |-> current, output |-> round]))

SamplerSample(num_steps) == SampleLoop(1, num_steps, 0, << >>)

\* ------------------------------------------------------------ embeddings.rs
\* VoiceBank::load_from_dir knows 8 voice files and loads those that exist
num_voices == 8
VoiceCounts == {3, num_voices}

\* no embedding (None); the embedding a caller passes to set_custom_voice
NoVoice == [kind |-> "none", index |-> 0]
CustomVoices == {[kind |-> "custom", index |-> 1]}

\* VoiceBank::get
VoiceBankGet(count, index) ==
    IF index < count THEN [kind |-> "bank", index |-> index] ELSE NoVoice

\* ------------------------------------------------------------ pocket_tts.rs
\* synthesize, lines 115-120, and synthesize_streaming, lines 161-166: the
\* voice handed to FlowLM::forward
SelectVoice_bank(custom, count, index) == VoiceBankGet(count, index)
SelectVoice(custom, count, index) ==
    IF custom # NoVoice THEN custom ELSE VoiceBankGet(count, index)

\* the voice of a synthesis call, with the inputs of the selection
VoiceRecord(custom, count, index) ==
    [voice |-> SelectVoice(custom, count, index), index |-> index, custom |-> custom]

\* the sampler call of a pass: its rounds and the steps configured at the time
NoSample == [rounds |-> << >>, steps |-> 0]
SampleRecord(sampled, num_steps, c) ==
    IF sampled THEN [rounds |-> SamplerSample(num_steps), steps |-> c.consistency_steps]
    ELSE NoSample

\* token counts the tokenizer returns: around the chunk boundaries
TokenCounts == {n \in 0 .. MaxTokens : n % chunk_size \in {0, 1, chunk_size - 1}}

\* which step of a pass over a chunk fails (none: no step fails): building
\* the token tensor, FlowLM::forward (after `fault` layers appended), the
\* sampler, the decoder, the conversion of the audio tensor
FaultPoints == {0, num_layers \div 2, num_layers}
Outcomes ==
    {[stage |-> s, fault |-> NoFault] : s \in {"none", "tensor", "sample", "decode", "convert"}}
    \cup {[stage |-> "forward", fault |-> f] : f \in FaultPoints}

\* PocketTTSModel::configure
ModelConfigure(cur, c) ==
    IF Validate(c) # "Ok"
    THEN [result |-> "InvalidConfig", config |-> cur]
    ELSE [result |-> "Ok", config |-> c]

\* token_ids.chunks(chunk_size): chunk i exists
HasChunk_exact(n, i) == (i + 1) * chunk_size <= n
HasChunk(n, i) == i * chunk_size < n

\* the loop goes on to chunk i + 1 after the callback of chunk i returned ret
LoopContinues_ignore(ret, n, i) == HasChunk(n, i + 1)
LoopContinues(ret, n, i) == ret /\ HasChunk(n, i + 1)

Min(a, b) == IF a < b THEN a ELSE b

\* the tokens of chunk i
ChunkTokens(n, i) == [first |-> i * chunk_size, last |-> Min((i + 1) * chunk_size, n) - 1]

\* is_last of iteration i
IsLast(n, i) == i = (n \div chunk_size)

\* a forward pass of a call: the passes so far, the chunk of this one and
\* what it finds in the caches when it starts
PassRecord(count, chunk, caches) == [count |-> count, chunk |-> chunk, seen |-> caches]

\* the fallible steps of one pass over the tokens first .. last, from the
\* token tensor to the audio vector
PipelinePass(caches, first, last, use_cache, max, o) ==
    IF o.stage = "tensor"
    THEN [ok |-> FALSE, caches |-> caches, passed |-> FALSE, sampled |-> FALSE]
    ELSE LET r == FlowLMForward(caches, first, last - first + 1, use_cache, max, o.fault)
         IN  [ok |-> r.ok /\ o.stage \in {"none", "forward"},
              caches |-> r.caches, passed |-> TRUE,
              sampled |-> r.ok /\ o.stage \in {"none", "decode", "convert"}]

\* the call before ended early and left keys in the caches
EndedEarly == st_end \in {"stopped", "failed"} /\ FlowLMCacheSeqLen(kv_caches) > 0

\* PocketTTSModel::synthesize on a text of n tokens
ModelSynthesize(n, o) ==
    LET reset == FlowLMResetCache(kv_caches)
        r == PipelinePass(reset, 0, n - 1, FALSE, max_seq_len, o)
    IN  /\ kv_caches' = r.caches
        /\ st_kind' = "oneshot"
        /\ st_n' = n
        /\ st_i' = 0
        /\ st_active' = FALSE
        /\ st_calls' = << >>
        /\ st_pass' = IF r.passed THEN PassRecord(1, 0, reset) ELSE PassRecord(0, 0, reset)
        /\ st_end' = IF r.ok THEN "completed" ELSE "failed"
        /\ st_prev' = EndedEarly
        /\ result' = IF r.ok THEN "Ok" ELSE "InferenceFailed"
        /\ st_voice' = VoiceRecord(custom_voice, voice_count, model_config.voice_index)
        /\ st_rounds' = SampleRecord(r.sampled, sampler_num_steps, model_config)

\* PocketTTSModel::synthesize_streaming up to the chunk loop
ModelStreamBegin(n) ==
    /\ kv_caches' = FlowLMResetCache(kv_caches)
    /\ st_kind' = "stream"
    /\ st_n' = n
    /\ st_i' = 0
    /\ st_calls' = << >>
    /\ st_pass' = PassRecord(0, 0, FlowLMResetCache(kv_caches))
    /\ st_active' = HasChunk(n, 0)
    /\ st_end' = IF HasChunk(n, 0) THEN "running" ELSE "completed"
    /\ st_prev' = EndedEarly
    /\ result' = IF HasChunk(n, 0) THEN "none" ELSE "Ok"
    /\ st_voice' = VoiceRecord(custom_voice, voice_count, model_config.voice_index)
    /\ st_rounds' = NoSample

\* one iteration of the chunk loop; ret is what chunk_callback returns
ModelStreamChunk(o, ret) ==
    LET c == ChunkTokens(st_n, st_i)
        r == PipelinePass(kv_caches, c.first, c.last, TRUE, max_seq_len, o)
        more == LoopContinues(ret, st_n, st_i)
    IN  /\ kv_caches' = r.caches
        /\ st_pass' = IF r.passed THEN PassRecord(st_pass.count + 1, st_i, kv_caches) ELSE st_pass
        /\ IF r.ok
           THEN /\ st_calls' = Append(st_calls,
                        [chunk |-> st_i, first |-> c.first, last |-> c.last,
                         is_final |-> IsLast(st_n, st_i), ret |-> ret])
                /\ st_i' = st_i + 1
                /\ st_active' = more
                /\ st_end' = IF more THEN "running" ELSE IF ret THEN "completed" ELSE "stopped"
                /\ result' = IF more THEN "none" ELSE "Ok"
           ELSE /\ st_calls' = st_calls
                /\ st_i' = st_i
                /\ st_active' = FALSE
                /\ st_end' = "failed"
                /\ result' = "InferenceFailed"
        /\ st_rounds' = SampleRecord(r.sampled, sampler_num_steps, model_config)
        /\ UNCHANGED <<st_n, st_kind, st_prev, st_voice>>

\* PocketTTSEngine::new
EngineInit ==
    /\ model_loaded = TRUE
    /\ config = DefaultConfig
    /\ is_cancelled = FALSE
    /\ local_cancelled = FALSE
    /\ model_lock = 0
    /\ pc = [t \in Threads |-> "idle"]
    /\ arg = [t \in Threads |-> DefaultConfig]
    /\ h_events = << >>
    /\ cancel_at = -1
    /\ last_valid = DefaultConfig
    /\ cfg_seq = TRUE

\* PocketTTSModel::load
ModelInit ==
    /\ kv_caches = [l \in Layers |-> KVCacheClear]
    /\ fl_sum = 0 /\ fl_failed = FALSE /\ fl_last = "new"
    /\ fl_views = [l \in Layers |-> << >>]
    /\ fl_pass = NoPass
    /\ sampler_num_steps = SamplerNew
    /\ custom_voice = NoVoice
    /\ st_rounds = NoSample
    /\ st_voice = VoiceRecord(NoVoice, 0, 0)
    /\ model_config = DefaultConfig
    /\ st_active = FALSE /\ st_n = 0 /\ st_i = 0
    /\ st_kind = "none" /\ st_end = "none"
    /\ st_calls = << >>
    /\ st_pass = PassRecord(0, 0, [l \in Layers |-> KVCacheClear])
    /\ st_prev = FALSE
    /\ result = "none"
    /\ cfg_ret = [valid |-> TRUE, result |-> "none"]

\* ------------------------------------------------- mimi.rs: audio tensors
\* The audio of a call is modelled by where its samples come from. A tensor
\* is a sequence of segments. Samples(c, a, n) is the samples a .. a+n-1 of
\* the decoded (un-blended) audio of chunk c; Blended is the crossfade of two
\* such runs of fade_len samples, sample by sample.
Samples(c, a, n) ==
    [kind |-> "samples", chunk |-> c, from |-> a, len |-> n,
     prev_chunk |-> 0, prev_from |-> 0, fade_len |-> 0]
Blended(prev_overlap, curr_overlap, fade) ==
    [kind |-> "blended", chunk |-> curr_overlap.chunk, from |-> curr_overlap.from,
     len |-> fade, prev_chunk |-> prev_overlap.chunk, prev_from |-> prev_overlap.from,
     fade_len |-> fade]

\* previous_tail: None
NoTail == [some |-> FALSE, seg |-> Samples(0, 0, 0)]
NoDecode ==
    [done |-> FALSE, ret |-> "none", first |-> TRUE, chunk |-> 0, total_samples |-> 0,
     prev |-> Samples(0, 0, 0), overlap_samples |-> 0, out |-> << >>, tail |-> NoTail]
NoConv == [done |-> FALSE, ok |-> FALSE, len |-> 0, reads |-> << >>]
\* a synthesize_with_voice call: its argument, the two configurations when
\* it read get_config(), whether it reached model.synthesize, the voice index
\* the synthesis ran with, and what synthesize returned
NoCall ==
    [v |-> 0, config_before |-> DefaultConfig, model_before |-> DefaultConfig,
     synthesized |-> FALSE, synth_voice |-> -1, result |-> "none"]
\* the same when the call has returned `ret`, with the two configurations then
CallReturned(call, ret, engine_config, model_cfg) ==
    [done |-> TRUE, ret |-> ret, v |-> call.v,
     config_before |-> call.config_before, model_before |-> call.model_before,
     config_after |-> engine_config, model_after |-> model_cfg,
     synthesized |-> call.synthesized, synth_voice |-> call.synth_voice]
NoWithVoice ==
    [done |-> FALSE, ret |-> "none", v |-> 0,
     config_before |-> DefaultConfig, model_before |-> DefaultConfig,
     config_after |-> DefaultConfig, model_after |-> DefaultConfig,
     synthesized |-> FALSE, synth_voice |-> -1]

\* --------------------------------------- embeddings.rs: VoiceEmbedding
\* A tensor is modelled by its dims where only the shape matters.
Unsqueeze0(dims) == <<1>> \o dims

\* Tensor::repeat: every dimension multiplied by its repeat count
Repeat(dims, reps) == [k \in 1 .. Len(dims) |-> dims[k] * reps[k]]

\* VoiceEmbedding::from_tensor: a [dim] tensor becomes [1, dim], a [seq, dim]
\* tensor is kept
FromTensor(dims) == IF Len(dims) = 1 THEN Unsqueeze0(dims) ELSE dims

\* VoiceEmbedding::expand_to_seq(batch_size, _seq_len): the embedding with a
\* batch dimension in front, repeated batch_size times; the second argument
\* is not read
ExpandToSeq(embedding, batch_size, seq_len) ==
    LET expanded == Unsqueeze0(embedding)
    IN  IF batch_size > 1 THEN Repeat(expanded, <<batch_size, 1, 1>>) ELSE expanded

\* FlowLM::forward, line 182: hidden + voice_expanded (Tensor + Tensor takes
\* two tensors of the same shape and fails with a shape mismatch otherwise)
TensorAdd(lhs, rhs) == IF lhs = rhs THEN "ok" ELSE "shape_mismatch"

\* ------------------------------------------------------ audio.rs: normalize
\* An f32 sample is modelled in thousandths: 1000 is 1.0, 950 is 0.95. The
\* rounding of a division is at most one thousandth, where f32 rounds finer.
Fixed == 1000
Abs(x) == IF x < 0 THEN 0 - x ELSE x
\* f32 division and multiplication on thousandths, rounded towards zero
FDiv(x, y) == (IF (x < 0) = (y < 0) THEN 1 ELSE -1) * ((Abs(x) * Fixed) \div Abs(y))
FMul(x, y) == (IF (x < 0) = (y < 0) THEN 1 ELSE -1) * ((Abs(x) * Abs(y)) \div Fixed)
F32Max(x, y) == IF x >= y THEN x ELSE y

\* samples.iter().map(|s| s.abs()).fold(0.0f32, f32::max)
RECURSIVE MaxAbs(_)
MaxAbs(samples) ==
    IF samples = << >> THEN 0
    ELSE LET front == SubSeq(samples, 1, Len(samples) - 1)
         IN  F32Max(MaxAbs(front), Abs(samples[Len(samples)]))

\* lines 115-120: when the peak is neither 0 nor exactly 1.0, every sample
\* is multiplied by 0.95 / max_abs
NeedsScale(max_abs) == max_abs > 0 /\ max_abs # Fixed
Normalize(samples) ==
    LET max_abs == MaxAbs(samples)
    IN  IF NeedsScale(max_abs)
        THEN LET scale == FDiv(950, max_abs)
             IN  [k \in 1 .. Len(samples) |-> FMul(samples[k], scale)]
        ELSE samples

\* the functions with a specification of their own, when not called
ExpandIdle ==
    /\ ex_embedding = << >> /\ ex_batch = 0 /\ ex_seq = 0
    /\ ex_stage = 0 /\ ex_out = << >> /\ ex_sum = "none"
NormIdle == nz_in = << >> /\ nz_out = << >> /\ nz_done = FALSE
MaskIdle == mk_q = 0 /\ mk_kv = 0 /\ mk_mask = << >>
StreamDecIdle == sd_tail = NoTail /\ sd_n = 0 /\ sd_last = NoDecode
ConvIdle == cv_len = 0 /\ cv_kernel = 0 /\ cv_dilation = 0 /\ cv_out = NoConv
WithVoiceIdle ==
    /\ wv_orig = [t \in Threads |-> DefaultConfig]
    /\ wv_call = [t \in Threads |-> NoCall]
    /\ wv_hist = NoWithVoice
FnIdle == ExpandIdle /\ NormIdle /\ MaskIdle /\ StreamDecIdle /\ ConvIdle /\ WithVoiceIdle
SamplerIdle == sm_calls = << >>
ValidateIdle == v_cfg = DefaultConfig /\ v_ret = "none"
TokIdle ==
    /\ tk_vocab = << >> /\ tk_text = << >> /\ tk_pc = "idle" /\ tk_i = 0
    /\ tk_tokens = << >> /\ tk_steps = << >> /\ tk_decoded = << >>
DecIdle == dec_frames = 0 /\ dec_stage = 0 /\ dec_len = 0

\* ------------------------------------- SpecModel: one PocketTTSModel, one thread
MInit ==
    /\ max_seq_len = max_seq_len_default
    /\ ModelInit
    /\ EngineInit
    /\ voice_count \in VoiceCounts
    /\ SamplerIdle /\ ValidateIdle /\ TokIdle /\ DecIdle /\ FnIdle

MConfigure(c) ==
    /\ ~st_active
    /\ model_config' = ModelConfigure(model_config, c).config
    /\ cfg_ret' = [valid |-> Validate(c) = "Ok", result |-> ModelConfigure(model_config, c).result]
    /\ UNCHANGED <<kv_caches, sessVars, st_prev>>
    /\ UNCHANGED <<flHistory, engineVars>>
    /\ UNCHANGED restVars

MSynthesize(n, o) ==
    /\ ~st_active
    /\ ModelSynthesize(n, o)
    /\ UNCHANGED <<model_config, cfg_ret>>
    /\ UNCHANGED <<flHistory, engineVars>>
    /\ UNCHANGED restVars

MStreamBegin(n) ==
    /\ ~st_active
    /\ ModelStreamBegin(n)
    /\ UNCHANGED <<model_config, cfg_ret>>
    /\ UNCHANGED <<flHistory, engineVars>>
    /\ UNCHANGED restVars

MStreamChunk(o, ret) ==
    /\ st_active
    /\ ModelStreamChunk(o, ret)
    /\ UNCHANGED <<model_config, cfg_ret>>
    /\ UNCHANGED <<flHistory, engineVars>>
    /\ UNCHANGED restVars

MSetCustomVoice(e) ==
    /\ ~st_active
    /\ custom_voice' = e
    /\ UNCHANGED <<flVars, modelVars, engineVars>>
    /\ UNCHANGED <<sampler_num_steps, voice_count, sm_calls, validateVars, tokVars, decVars, fnVars>>

MClearCustomVoice ==
    /\ ~st_active
    /\ custom_voice' = NoVoice
    /\ UNCHANGED <<flVars, modelVars, engineVars>>
    /\ UNCHANGED <<sampler_num_steps, voice_count, sm_calls, validateVars, tokVars, decVars, fnVars>>

MNext ==
    \/ \E e \in CustomVoices : MSetCustomVoice(e)
    \/ MClearCustomVoice
    \/ \E c \in ConfigArgs : MConfigure(c)
    \/ \E n \in TokenCounts, o \in Outcomes : MSynthesize(n, o)
    \/ \E n \in TokenCounts : MStreamBegin(n)
    \/ \E o \in Outcomes, ret \in BOOLEAN : MStreamChunk(o, ret)

SpecModel == MInit /\ [][MNext]_vars

\* ------------------------------------------------------------ engine.rs
\* self.model.lock(): the mutex is taken when no thread holds it
MutexFree_any(lock) == TRUE
MutexFree(lock) == lock = 0

\* configure, line 68: the engine validates before it takes any lock
EngineConfigureCheck_skip(c) == "Ok"
EngineConfigureCheck(c) == IF Validate(c) # "Ok" THEN "InvalidConfig" ELSE "Ok"

\* configure, lines 70-74: under the model mutex
EngineConfigureModel(loaded, cur, c) ==
    IF loaded THEN ModelConfigure(cur, c) ELSE [result |-> "Ok", config |-> cur]

\* the closure start_streaming passes as chunk_callback: what it returns
CallbackReturns(flag) == ~flag

\* the handler calls the closure makes for chunk k
CallbackEvents(flag, k, is_final) ==
    IF flag THEN << >>
    ELSE <<[ev |-> "progress", chunk |-> k, is_final |-> is_final],
           [ev |-> "chunk", chunk |-> k, is_final |-> is_final]>>
         \o (IF is_final THEN <<[ev |-> "complete", chunk |-> k, is_final |-> is_final]>> ELSE << >>)

\* the handler call start_streaming makes when synthesize_streaming fails
ErrorEvent_complete == [ev |-> "complete", chunk |-> 0, is_final |-> FALSE]
ErrorEvent == [ev |-> "error", chunk |-> 0, is_final |-> FALSE]

InConfigure(t) == pc[t] \in {"cfg_model", "cfg_store"}

\* configure(c), validation
EConfigureBegin(t, c) ==
    /\ pc[t] = "idle"
    /\ IF EngineConfigureCheck(c) # "Ok"
       THEN /\ cfg_ret' = [valid |-> Validate(c) = "Ok", result |-> EngineConfigureCheck(c)]
            /\ UNCHANGED <<pc, arg>>
       ELSE /\ pc' = [pc EXCEPT ![t] = "cfg_model"]
            /\ arg' = [arg EXCEPT ![t] = c]
            /\ UNCHANGED cfg_ret
    /\ last_valid' = IF Validate(c) = "Ok" THEN c ELSE last_valid
    /\ cfg_seq' = (cfg_seq /\ \A u \in Threads : ~InConfigure(u))
    /\ UNCHANGED <<flVars, model_config, sessVars, st_prev>>
    /\ UNCHANGED <<model_loaded, config, is_cancelled, local_cancelled, model_lock,
                   h_events, cancel_at>>
    /\ UNCHANGED restVars

\* configure(c), the model's part under the model mutex
EConfigureModel(t) ==
    /\ pc[t] = "cfg_model"
    /\ MutexFree(model_lock)
    /\ LET r == EngineConfigureModel(model_loaded, model_config, arg[t])
       IN  /\ model_config' = r.config
           /\ IF r.result # "Ok"
              THEN /\ cfg_ret' = [valid |-> Validate(arg[t]) = "Ok", result |-> r.result]
                   /\ pc' = [pc EXCEPT ![t] = "idle"]
                   /\ arg' = [arg EXCEPT ![t] = DefaultConfig]
              ELSE /\ pc' = [pc EXCEPT ![t] = "cfg_store"]
                   /\ UNCHANGED <<cfg_ret, arg>>
    /\ UNCHANGED <<flVars, sessVars, st_prev>>
    /\ UNCHANGED <<model_loaded, config, is_cancelled, local_cancelled, model_lock,
                   h_events, cancel_at, last_valid, cfg_seq>>
    /\ UNCHANGED restVars

\* configure(c), the engine's copy under the config mutex
EConfigureStore(t) ==
    /\ pc[t] = "cfg_store"
    /\ config' = arg[t]
    /\ cfg_ret' = [valid |-> Validate(arg[t]) = "Ok", result |-> "Ok"]
    /\ pc' = [pc EXCEPT ![t] = "idle"]
    /\ arg' = [arg EXCEPT ![t] = DefaultConfig]
    /\ UNCHANGED <<flVars, model_config, sessVars, st_prev>>
    /\ UNCHANGED <<model_loaded, is_cancelled, local_cancelled, model_lock,
                   h_events, cancel_at, last_valid, cfg_seq>>
    /\ UNCHANGED restVars

\* synthesize(text): the whole call runs under the model mutex
ESynthesize(t, n, o) ==
    /\ pc[t] = "idle"
    /\ MutexFree(model_lock)
    /\ IF model_loaded
       THEN ModelSynthesize(n, o)
       ELSE /\ result' = "ModelNotLoaded"
            /\ st_kind' = "notloaded"
            /\ UNCHANGED <<kv_caches, st_active, st_n, st_i, st_end, st_calls, st_pass, st_prev,
                         st_rounds, st_voice>>
    /\ UNCHANGED <<flHistory, model_config, cfg_ret, engineVars>>
    /\ UNCHANGED restVars

\* start_streaming, line 128: before the model mutex is taken
EStartStreaming(t) ==
    /\ pc[t] = "idle"
    /\ is_cancelled' = FALSE
    /\ pc' = [pc EXCEPT ![t] = "stream_lock"]
    /\ UNCHANGED <<flVars, modelVars>>
    /\ UNCHANGED <<model_loaded, config, local_cancelled, model_lock, arg,
                   h_events, cancel_at, last_valid, cfg_seq>>
    /\ UNCHANGED restVars

\* start_streaming, lines 130-147: takes the model mutex and enters
\* synthesize_streaming on a text of n tokens
EStreamLock(t, n) ==
    /\ pc[t] = "stream_lock"
    /\ MutexFree(model_lock)
    /\ IF model_loaded
       THEN /\ local_cancelled' = FALSE
            /\ is_cancelled' = FALSE
            /\ ModelStreamBegin(n)
            /\ h_events' = << >>
            /\ cancel_at' = -1
            /\ model_lock' = IF st_active' THEN t ELSE 0
            /\ pc' = [pc EXCEPT ![t] = IF st_active' THEN "streaming" ELSE "idle"]
       ELSE /\ result' = "ModelNotLoaded"
            /\ st_kind' = "notloaded"
            /\ h_events' = << >>
            /\ cancel_at' = -1
            /\ pc' = [pc EXCEPT ![t] = "idle"]
            /\ UNCHANGED <<kv_caches, st_active, st_n, st_i, st_end, st_calls, st_pass, st_prev,
                         st_rounds, st_voice>>
            /\ UNCHANGED <<local_cancelled, is_cancelled, model_lock>>
    /\ UNCHANGED <<flHistory, model_config, cfg_ret>>
    /\ UNCHANGED <<model_loaded, config, arg, last_valid, cfg_seq>>
    /\ UNCHANGED restVars

\* start_streaming: one iteration of the chunk loop with the engine's
\* closure as callback, and the return when the loop ends
EStreamChunk(t, o) ==
    /\ pc[t] = "streaming"
    /\ model_lock = t
    /\ ModelStreamChunk(o, CallbackReturns(local_cancelled))
    /\ h_events' = IF st_end' = "failed"
                   THEN Append(h_events, ErrorEvent)
                   ELSE h_events \o CallbackEvents(local_cancelled, st_i, IsLast(st_n, st_i))
    /\ model_lock' = IF st_active' THEN t ELSE 0
    /\ pc' = [pc EXCEPT ![t] = IF st_active' THEN "streaming" ELSE "idle"]
    /\ UNCHANGED <<flHistory, model_config, cfg_ret>>
    /\ UNCHANGED <<model_loaded, config, is_cancelled, local_cancelled, arg,
                   cancel_at, last_valid, cfg_seq>>
    /\ UNCHANGED restVars

\* cancel()
ECancel(t) ==
    /\ pc[t] = "idle"
    /\ is_cancelled' = TRUE
    /\ cancel_at' = IF st_active /\ cancel_at = -1 THEN st_i ELSE cancel_at
    /\ UNCHANGED <<flVars, modelVars>>
    /\ UNCHANGED <<model_loaded, config, local_cancelled, model_lock, pc, arg,
                   h_events, last_valid, cfg_seq>>
    /\ UNCHANGED restVars

\* unload()
EUnload(t) ==
    /\ pc[t] = "idle"
    /\ MutexFree(model_lock)
    /\ model_loaded
    /\ model_loaded' = FALSE
    /\ UNCHANGED <<flVars, modelVars>>
    /\ UNCHANGED <<config, is_cancelled, local_cancelled, model_lock, pc, arg,
                   h_events, cancel_at, last_valid, cfg_seq>>
    /\ UNCHANGED restVars

\* what the calls below leave alone besides the engine and the model
idleVars == <<sampler_num_steps, custom_voice, voice_count, sm_calls, validateVars, tokVars,
              decVars, expandVars, normVars, maskVars, streamDecVars, convVars>>

\* synthesize_with_voice, lines 113-114
NewConfig(original_config, voice_index) == [original_config EXCEPT !.voice_index = voice_index]
\* synthesize_with_voice, line 120: the configuration put back
RestoreConfig_new(original_config, new_config) == new_config
RestoreConfig(original_config, new_config) == original_config

\* synthesize_with_voice(text, v), lines 112-115: get_config, new_config and
\* the validation of the first configure
EWithVoiceBegin(t, v) ==
    /\ pc[t] = "idle"
    /\ LET call == [NoCall EXCEPT !.v = v, !.config_before = config, !.model_before = model_config]
       IN  IF EngineConfigureCheck(NewConfig(config, v)) # "Ok"
           THEN /\ wv_hist' = CallReturned(call, EngineConfigureCheck(NewConfig(config, v)),
                                           config, model_config)
                /\ UNCHANGED <<pc, wv_orig, wv_call>>
           ELSE /\ pc' = [pc EXCEPT ![t] = "wv_model"]
                /\ wv_orig' = [wv_orig EXCEPT ![t] = config]
                /\ wv_call' = [wv_call EXCEPT ![t] = call]
                /\ UNCHANGED wv_hist
    /\ UNCHANGED <<flVars, modelVars, idleVars>>
    /\ UNCHANGED <<model_loaded, config, is_cancelled, local_cancelled, model_lock, arg,
                   h_events, cancel_at, last_valid, cfg_seq>>

\* the first configure, lines 70-74: the model's part under the model mutex
EWithVoiceModel(t) ==
    /\ pc[t] = "wv_model"
    /\ MutexFree(model_lock)
    /\ LET r == EngineConfigureModel(model_loaded, model_config, NewConfig(wv_orig[t], wv_call[t].v))
       IN  /\ model_config' = r.config
           /\ IF r.result # "Ok"
              THEN /\ wv_hist' = CallReturned(wv_call[t], r.result, config, r.config)
                   /\ pc' = [pc EXCEPT ![t] = "idle"]
                   /\ wv_orig' = [wv_orig EXCEPT ![t] = DefaultConfig]
                   /\ wv_call' = [wv_call EXCEPT ![t] = NoCall]
              ELSE /\ pc' = [pc EXCEPT ![t] = "wv_store"]
                   /\ UNCHANGED <<wv_orig, wv_call, wv_hist>>
    /\ UNCHANGED <<flVars, sessVars, st_prev, cfg_ret, idleVars>>
    /\ UNCHANGED <<model_loaded, config, is_cancelled, local_cancelled, model_lock, arg,
                   h_events, cancel_at, last_valid, cfg_seq>>

\* the first configure, line 76: the engine's copy
EWithVoiceStore(t) ==
    /\ pc[t] = "wv_store"
    /\ config' = NewConfig(wv_orig[t], wv_call[t].v)
    /\ pc' = [pc EXCEPT ![t] = "wv_synth"]
    /\ UNCHANGED <<flVars, modelVars, idleVars, withVoiceVars>>
    /\ UNCHANGED <<model_loaded, is_cancelled, local_cancelled, model_lock, arg,
                   h_events, cancel_at, last_valid, cfg_seq>>

\* synthesize, lines 87-88: the model mutex is taken; the call is the
\* caller's own or the one of synthesize_with_voice, line 117
ESynthLock(t) ==
    /\ pc[t] \in {"idle", "wv_synth"}
    /\ MutexFree(model_lock)
    /\ model_lock' = t
    /\ pc' = [pc EXCEPT ![t] = IF pc[t] = "idle" THEN "synth" ELSE "wv_run"]
    /\ UNCHANGED <<flVars, modelVars, idleVars, withVoiceVars>>
    /\ UNCHANGED <<model_loaded, config, is_cancelled, local_cancelled, arg,
                   h_events, cancel_at, last_valid, cfg_seq>>

\* synthesize, lines 90-106: model.synthesize on a text of n tokens under
\* the mutex, which the return releases
ESynthRun(t, n, o) ==
    /\ pc[t] \in {"synth", "wv_run"}
    /\ IF model_loaded
       THEN ModelSynthesize(n, o)
       ELSE /\ result' = "ModelNotLoaded"
            /\ st_kind' = "notloaded"
            /\ UNCHANGED <<kv_caches, st_active, st_n, st_i, st_end, st_calls, st_pass, st_prev,
                         st_rounds, st_voice>>
    /\ model_lock' = 0
    /\ pc' = [pc EXCEPT ![t] = IF pc[t] = "synth" THEN "idle" ELSE "wv_back_model"]
    /\ wv_call' = IF pc[t] = "wv_run"
                  THEN [wv_call EXCEPT ![t].synthesized = model_loaded,
                                       ![t].synth_voice =
                                           IF model_loaded THEN st_voice'.index ELSE -1,
                                       ![t].result = result']
                  ELSE wv_call
    /\ UNCHANGED <<flHistory, model_config, cfg_ret, idleVars, wv_orig, wv_hist>>
    /\ UNCHANGED <<model_loaded, config, is_cancelled, local_cancelled, arg,
                   h_events, cancel_at, last_valid, cfg_seq>>

\* the second configure, line 120: validation and the model's part
EWithVoiceBackModel(t) ==
    /\ pc[t] = "wv_back_model"
    /\ MutexFree(model_lock)
    /\ LET c == RestoreConfig(wv_orig[t], NewConfig(wv_orig[t], wv_call[t].v))
           check == EngineConfigureCheck(c)
           r == IF check # "Ok" THEN [result |-> check, config |-> model_config]
                ELSE EngineConfigureModel(model_loaded, model_config, c)
       IN  /\ model_config' = r.config
           /\ IF r.result # "Ok"
              THEN /\ wv_hist' = CallReturned(wv_call[t], r.result, config, r.config)
                   /\ pc' = [pc EXCEPT ![t] = "idle"]
                   /\ wv_orig' = [wv_orig EXCEPT ![t] = DefaultConfig]
                   /\ wv_call' = [wv_call EXCEPT ![t] = NoCall]
              ELSE /\ pc' = [pc EXCEPT ![t] = "wv_back_store"]
                   /\ UNCHANGED <<wv_orig, wv_call, wv_hist>>
    /\ UNCHANGED <<flVars, sessVars, st_prev, cfg_ret, idleVars>>
    /\ UNCHANGED <<model_loaded, config, is_cancelled, local_cancelled, model_lock, arg,
                   h_events, cancel_at, last_valid, cfg_seq>>

\* the second configure, line 76, and the return of `result`, line 122
EWithVoiceBackStore(t) ==
    /\ pc[t] = "wv_back_store"
    /\ config' = RestoreConfig(wv_orig[t], NewConfig(wv_orig[t], wv_call[t].v))
    /\ wv_hist' = CallReturned(wv_call[t], wv_call[t].result, config', model_config)
    /\ pc' = [pc EXCEPT ![t] = "idle"]
    /\ wv_orig' = [wv_orig EXCEPT ![t] = DefaultConfig]
    /\ wv_call' = [wv_call EXCEPT ![t] = NoCall]
    /\ UNCHANGED <<flVars, modelVars, idleVars>>
    /\ UNCHANGED <<model_loaded, is_cancelled, local_cancelled, model_lock, arg,
                   h_events, cancel_at, last_valid, cfg_seq>>

\* --------------------- Spec: the synthesis calls of one PocketTTSEngine
Init ==
    /\ max_seq_len = max_seq_len_default
    /\ ModelInit
    /\ EngineInit
    /\ voice_count = num_voices
    /\ SamplerIdle /\ ValidateIdle /\ TokIdle /\ DecIdle /\ FnIdle

Next ==
    \/ \E t \in Threads, n \in TokenCounts, o \in Outcomes : ESynthesize(t, n, o)
    \/ \E t \in Threads : EStartStreaming(t)
    \/ \E t \in Threads, n \in TokenCounts : EStreamLock(t, n)
    \/ \E t \in Threads, o \in Outcomes : EStreamChunk(t, o)
    \/ \E t \in Threads : ECancel(t)
    \/ \E t \in Threads : EUnload(t)

Spec == Init /\ [][Next]_vars

\* ---------------- SpecConfig: the configuration calls of one PocketTTSEngine
ConfigNext ==
    \/ \E t \in Threads, c \in ConfigArgs : EConfigureBegin(t, c)
    \/ \E t \in Threads : EConfigureModel(t)
    \/ \E t \in Threads : EConfigureStore(t)
    \/ \E t \in Threads : EUnload(t)

SpecConfig == Init /\ [][ConfigNext]_vars

\* ------- SpecSessions: concurrent synthesis calls of one PocketTTSEngine
\* a text of two chunks, and a synthesis that succeeds or fails in the
\* backbone; synthesize_with_voice is called with the voice in force, which
\* keeps the configurations out of the interleavings
SessionVoices == {DefaultConfig.voice_index}
SessionTokens == {chunk_size + 1}
SessionOutcomes == {o \in Outcomes : o.stage = "none" \/ (o.stage = "forward" /\ o.fault = 0)}

SsNext ==
    \/ \E t \in Threads, v \in SessionVoices : EWithVoiceBegin(t, v)
    \/ \E t \in Threads : EWithVoiceModel(t)
    \/ \E t \in Threads : EWithVoiceStore(t)
    \/ \E t \in Threads : ESynthLock(t)
    \/ \E t \in Threads, n \in SessionTokens, o \in SessionOutcomes : ESynthRun(t, n, o)
    \/ \E t \in Threads : EWithVoiceBackModel(t)
    \/ \E t \in Threads : EWithVoiceBackStore(t)
    \/ \E t \in Threads : EStartStreaming(t)
    \/ \E t \in Threads, n \in SessionTokens : EStreamLock(t, n)
    \/ \E t \in Threads, o \in SessionOutcomes : EStreamChunk(t, o)

SpecSessions == Init /\ [][SsNext]_vars

\* -- SpecWithVoice: one call at a time on one PocketTTSEngine, any thread
\* the voices a caller asks for, a text of one chunk and one of two
WithVoiceArgs == {3, MaxVoiceIndex}
WithVoiceTokens == {1, chunk_size + 1}
\* no call is running
Quiet == \A u \in Threads : pc[u] = "idle"

WvNext ==
    \/ \E t \in Threads, v \in WithVoiceArgs : Quiet /\ EWithVoiceBegin(t, v)
    \/ \E t \in Threads : EWithVoiceModel(t)
    \/ \E t \in Threads : EWithVoiceStore(t)
    \/ \E t \in Threads : pc[t] = "wv_synth" /\ ESynthLock(t)
    \/ \E t \in Threads, n \in WithVoiceTokens, o \in SessionOutcomes : ESynthRun(t, n, o)
    \/ \E t \in Threads : EWithVoiceBackModel(t)
    \/ \E t \in Threads : EWithVoiceBackStore(t)
    \/ \E t \in Threads, c \in ConfigArgs : Quiet /\ EConfigureBegin(t, c)
    \/ \E t \in Threads : EConfigureModel(t)
    \/ \E t \in Threads : EConfigureStore(t)
    \/ \E t \in Threads : Quiet /\ EUnload(t)

SpecWithVoice == Init /\ [][WvNext]_vars

\* ------------------------------------------------- SpecFlowLM: the backbone
FlInit ==
    /\ max_seq_len \in {SmallMaxSeqLen, max_seq_len_default}
    /\ ModelInit
    /\ EngineInit
    /\ voice_count = num_voices
    /\ SamplerIdle /\ ValidateIdle /\ TokIdle /\ DecIdle /\ FnIdle

\* forward(tokens, voice, true) on the next seq_len tokens of the run
FlForwardCached(seq_len, fault) ==
    /\ KVCacheSeqLen(kv_caches[0]) + seq_len <= MaxRunTokens
    /\ LET r == FlowLMForward(kv_caches, fl_sum, seq_len, TRUE, max_seq_len, fault)
       IN  /\ kv_caches' = r.caches
           /\ fl_sum' = IF r.ok THEN fl_sum + seq_len ELSE fl_sum
           /\ fl_failed' = (fl_failed \/ ~r.ok)
           /\ fl_views' = IF r.ok /\ ~fl_failed
                          THEN [l \in Layers |-> fl_views[l] \o
                                  [i \in 1 .. seq_len |->
                                     AttentionView(kv_caches[l], fl_sum, seq_len, TRUE, i - 1)]]
                          ELSE fl_views
    /\ fl_last' = "forward"
    /\ fl_pass' = ForwardRecord(kv_caches, seq_len, TRUE, ~fl_failed,
                     FlowLMForward(kv_caches, fl_sum, seq_len, TRUE, max_seq_len, fault))
    /\ UNCHANGED <<max_seq_len, modelVars, engineVars>>
    /\ UNCHANGED restVars

\* forward(tokens, voice, false)
FlForwardUncached(seq_len, fault) ==
    /\ LET r == FlowLMForward(kv_caches, 0, seq_len, FALSE, max_seq_len, fault)
       IN  kv_caches' = r.caches
    /\ fl_last' = "forward_nocache"
    /\ fl_pass' = ForwardRecord(kv_caches, seq_len, FALSE, ~fl_failed,
                     FlowLMForward(kv_caches, 0, seq_len, FALSE, max_seq_len, fault))
    /\ UNCHANGED <<max_seq_len, fl_sum, fl_failed, fl_views, modelVars, engineVars>>
    /\ UNCHANGED restVars

FlResetCache ==
    /\ kv_caches' = FlowLMResetCache(kv_caches)
    /\ fl_sum' = 0
    /\ fl_failed' = FALSE
    /\ fl_last' = "reset"
    /\ fl_views' = [l \in Layers |-> << >>]
    /\ fl_pass' = NoPass
    /\ UNCHANGED <<max_seq_len, modelVars, engineVars>>
    /\ UNCHANGED restVars

FlNext ==
    \/ \E s \in 1 .. MaxPassTokens, f \in Faults \cup {NoFault} : FlForwardCached(s, f)
    \/ \E s \in 1 .. MaxPassTokens, f \in Faults \cup {NoFault} : FlForwardUncached(s, f)
    \/ FlResetCache

SpecFlowLM == FlInit /\ [][FlNext]_vars

\* ------------------------------------ SpecSampler: MLPSampler::set_num_steps
SmInit ==
    /\ max_seq_len = max_seq_len_default
    /\ ModelInit
    /\ EngineInit
    /\ voice_count = num_voices
    /\ ValidateIdle /\ TokIdle /\ DecIdle /\ FnIdle
    /\ sm_calls = << >>

SmSetNumSteps(steps) ==
    /\ Len(sm_calls) < MaxSamplerCalls
    /\ sampler_num_steps' = SetNumSteps(steps)
    /\ sm_calls' = Append(sm_calls, steps)
    /\ UNCHANGED <<flVars, modelVars, engineVars>>
    /\ UNCHANGED <<custom_voice, voice_count, validateVars, tokVars, decVars, fnVars>>

SmNext == \E steps \in 0 .. MaxStepsArg : SmSetNumSteps(steps)

SpecSampler == SmInit /\ [][SmNext]_vars

\* ------------------------------------------------------------ tokenizer.rs
\* A string is the sequence of its chars. The special tokens from_json looks
\* up:
BOS == <<"<", "s", ">">>
EOS == <<"<", "/", "s", ">">>
PAD == <<"<", "p", "a", "d", ">">>
UNK == <<"<", "u", "n", "k", ">">>

\* Option<u32>::None
NoId == -1

\* from_json: a vocabulary is the map token_to_id
BosId(v) == IF BOS \in DOMAIN v THEN v[BOS] ELSE NoId
EosId(v) == IF EOS \in DOMAIN v THEN v[EOS] ELSE NoId
PadId(v) == IF PAD \in DOMAIN v THEN v[PAD] ELSE NoId
UnkId(v) == IF UNK \in DOMAIN v THEN v[UNK] ELSE 0

\* from_json: id_to_token has one slot per vocabulary entry, empty unless an
\* entry has this id; ids beyond the slots are not stored, and decode puts
\* the replacement character for them
Replacement == <<"U+FFFD">>
IdToToken(v, id) ==
    IF id >= Cardinality(DOMAIN v) THEN Replacement
    ELSE IF \E t \in DOMAIN v : v[t] = id THEN CHOOSE t \in DOMAIN v : v[t] = id
    ELSE << >>

\* encode, line 116: where the match window of position i ends
MatchWindowEnd_all(len, i) == len
MatchWindowEnd(len, i) == Min(len, i + 10)

\* encode, lines 119-128: the end of the first window chars[i..end], from
\* the longest down, that is a vocabulary entry; i when there is none
RECURSIVE TryMatch(_, _, _, _)
TryMatch(v, chars, i, end) ==
    IF end <= i THEN i
    ELSE IF SubSeq(chars, i + 1, end) \in DOMAIN v THEN end
    ELSE TryMatch(v, chars, i, end - 1)

\* encode, lines 131-136: the id pushed for chars[i] when no window matched,
\* and the next position
FallbackId(v, chars, i) ==
    IF <<chars[i + 1]>> \in DOMAIN v THEN v[<<chars[i + 1]>>] ELSE UnkId(v)
FallbackNext_skip(i) == i + 2
FallbackNext(i) == i + 1

\* one iteration of the scan loop at position i: the id pushed and the next i
ScanStep(v, chars, i) ==
    LET end == TryMatch(v, chars, i, MatchWindowEnd(Len(chars), i))
    IN  IF end > i
        THEN [found |-> TRUE, id |-> v[SubSeq(chars, i + 1, end)], next |-> end]
        ELSE [found |-> FALSE, id |-> FallbackId(v, chars, i), next |-> FallbackNext(i)]

\* decode
RECURSIVE Decode(_, _)
Decode(v, ids) ==
    IF ids = << >> THEN << >>
    ELSE IF Head(ids) \in {BosId(v), EosId(v), PadId(v)} THEN Decode(v, Tail(ids))
    ELSE IdToToken(v, Head(ids)) \o Decode(v, Tail(ids))

\* -------------------------------- SpecTokenizer: encode, then decode, alone
Hello == <<"h", "e", "l", "l", "o">>
World == <<"w", "o", "r", "l", "d">>
HelloWorld == Hello \o <<" ">> \o World

\* the vocabulary of test_from_json; the same with an entry of 11 chars; one
\* with every special token and every char of "<s>a" as a token; one with
\* merged tokens; one without special tokens
VocabJson ==
    (UNK :> 0) @@ (BOS :> 1) @@ (EOS :> 2) @@ (Hello :> 3) @@ (<<" ">> :> 4) @@ (World :> 5)
VocabLong == VocabJson @@ (HelloWorld :> 6)
VocabChars ==
    (UNK :> 0) @@ (BOS :> 1) @@ (EOS :> 2) @@ (PAD :> 3)
    @@ (<<"<">> :> 4) @@ (<<"s">> :> 5) @@ (<<">">> :> 6) @@ (<<"a">> :> 7)
VocabMerges ==
    (UNK :> 0) @@ (BOS :> 1) @@ (EOS :> 2) @@ (PAD :> 3)
    @@ (<<"a">> :> 4) @@ (<<"s">> :> 5) @@ (<<"a", "s">> :> 6) @@ (<<"a", "s", "a">> :> 7)
VocabBare == (<<"a">> :> 0) @@ (<<"s">> :> 1) @@ (<<"s", "a">> :> 2)
Vocabs == {VocabJson, VocabLong, VocabChars, VocabMerges, VocabBare}

TextChars == {"a", "s", "<", ">", "?"}
Texts == UNION {[1 .. n -> TextChars] : n \in 0 .. MaxTextLen} \cup {HelloWorld}

TkInit ==
    /\ max_seq_len = max_seq_len_default
    /\ ModelInit
    /\ EngineInit
    /\ voice_count = num_voices
    /\ SamplerIdle /\ ValidateIdle /\ DecIdle /\ FnIdle
    /\ tk_vocab \in Vocabs
    /\ tk_text \in Texts
    /\ tk_pc = "start"
    /\ tk_i = 0
    /\ tk_tokens = << >>
    /\ tk_steps = << >>
    /\ tk_decoded = << >>

\* encode, lines 103-112
TkEncodeBegin ==
    /\ tk_pc = "start"
    /\ tk_tokens' = IF BosId(tk_vocab) # NoId THEN <<BosId(tk_vocab)>> ELSE << >>
    /\ tk_i' = 0
    /\ tk_pc' = "scan"
    /\ UNCHANGED <<tk_vocab, tk_text, tk_steps, tk_decoded>>
    /\ UNCHANGED <<flVars, modelVars, engineVars>>
    /\ UNCHANGED <<sampler_num_steps, custom_voice, voice_count, sm_calls, validateVars, decVars, fnVars>>

\* encode, lines 114-137: one iteration of the scan loop
TkScanStep ==
    /\ tk_pc = "scan"
    /\ tk_i < Len(tk_text)
    /\ LET r == ScanStep(tk_vocab, tk_text, tk_i)
       IN  /\ tk_tokens' = Append(tk_tokens, r.id)
           /\ tk_i' = r.next
           /\ tk_steps' = Append(tk_steps, [pos |-> tk_i, found |-> r.found, id |-> r.id,
                                            next |-> r.next, pushed |-> Len(tk_tokens') - Len(tk_tokens)])
    /\ UNCHANGED <<tk_vocab, tk_text, tk_pc, tk_decoded>>
    /\ UNCHANGED <<flVars, modelVars, engineVars>>
    /\ UNCHANGED <<sampler_num_steps, custom_voice, voice_count, sm_calls, validateVars, decVars, fnVars>>

\* encode, lines 139-144: the loop is left, Ok(tokens)
TkEncodeEnd ==
    /\ tk_pc = "scan"
    /\ ~(tk_i < Len(tk_text))
    /\ tk_tokens' = IF EosId(tk_vocab) # NoId THEN Append(tk_tokens, EosId(tk_vocab)) ELSE tk_tokens
    /\ tk_pc' = "done"
    /\ UNCHANGED <<tk_vocab, tk_text, tk_i, tk_steps, tk_decoded>>
    /\ UNCHANGED <<flVars, modelVars, engineVars>>
    /\ UNCHANGED <<sampler_num_steps, custom_voice, voice_count, sm_calls, validateVars, decVars, fnVars>>

\* decode on the tokens of encode
TkDecode ==
    /\ tk_pc = "done"
    /\ tk_decoded' = Decode(tk_vocab, tk_tokens)
    /\ tk_pc' = "decoded"
    /\ UNCHANGED <<tk_vocab, tk_text, tk_i, tk_tokens, tk_steps>>
    /\ UNCHANGED <<flVars, modelVars, engineVars>>
    /\ UNCHANGED <<sampler_num_steps, custom_voice, voice_count, sm_calls, validateVars, decVars, fnVars>>

TkNext == TkEncodeBegin \/ TkScanStep \/ TkEncodeEnd \/ TkDecode

SpecTokenizer == TkInit /\ [][TkNext]_vars

\* ------------------------------------------------------------ conv.rs
\* candle's Conv1d and ConvTranspose1d: the length of the output along the
\* time axis
Conv1dLen(l, kernel, stride, padding, dilation) ==
    ((l + 2 * padding - dilation * (kernel - 1) - 1) \div stride) + 1
ConvTranspose1dLen(l, kernel, stride, padding) ==
    (l - 1) * stride - 2 * padding + (kernel - 1) + 1

\* CausalConv1d::forward: the convolution padded by (kernel - 1) * dilation,
\* narrowed to the length of the input
CausalConv1dLen(l, kernel, stride, dilation) ==
    Min(l, Conv1dLen(l, kernel, stride, (kernel - 1) * dilation, dilation))

\* candle's Conv1d: the input positions output position t is computed from;
\* the input is padded by `padding` zeros on both sides, and the taps that
\* fall on the padding read no input
Conv1dReads(t, l, kernel, stride, padding, dilation) ==
    {p \in 0 .. l - 1 : \E j \in 0 .. kernel - 1 : p = t * stride + j * dilation - padding}

\* CausalConv1d::new, line 63
CausalPadding(kernel, dilation) == (kernel - 1) * dilation

\* CausalConv1d::forward, line 83: narrow(2, 0, seq_len) keeps the outputs
\* from position 0 on
CausalNarrowStart_end(y_len, seq_len) == y_len - seq_len
CausalNarrowStart(y_len, seq_len) == 0

\* CausalConv1d::forward: the outputs kept and what each was computed from;
\* narrow fails when the convolution returned fewer than seq_len positions
CausalConv1dForward(l, kernel, stride, dilation) ==
    LET padding == CausalPadding(kernel, dilation)
        y_len == Conv1dLen(l, kernel, stride, padding, dilation)
        start == CausalNarrowStart(y_len, l)
    IN  IF start + l > y_len
        THEN [done |-> TRUE, ok |-> FALSE, len |-> 0, reads |-> << >>]
        ELSE [done |-> TRUE, ok |-> TRUE, len |-> l,
              reads |-> [k \in 1 .. l |->
                           Conv1dReads(start + k - 1, l, kernel, stride, padding, dilation)]]

\* SEANetDecoderBlock::new / forward
DecoderBlockLen(l, kernel, stride) ==
    LET up == ConvTranspose1dLen(l, stride * 2, stride, stride \div 2)
        h1 == CausalConv1dLen(up, kernel, 1, 1)
    IN  CausalConv1dLen(h1, kernel, 1, 1)

\* ------------------------------------------------------------ seanet.rs
\* SEANetConfig::default
seanet_channels == <<512, 256, 128, 64, 32>>
seanet_kernel_sizes == <<7, 7, 7, 7, 7>>
seanet_strides == <<8, 5, 4, 2, 2>>

\* SEANetDecoder::new: one block per pair of consecutive channels
NumBlocks == Len(seanet_channels) - 1

\* SEANetDecoder::upsampling_ratio
RECURSIVE Product(_)
Product(seq) == IF seq = << >> THEN 1 ELSE Head(seq) * Product(Tail(seq))
UpsamplingRatio == Product(seanet_strides)

\* SEANetDecoder::forward, lines 96-98: the blocks from block b on
RECURSIVE SEANetBlocksLen(_, _)
SEANetBlocksLen(l, b) ==
    IF b > NumBlocks THEN l
    ELSE SEANetBlocksLen(DecoderBlockLen(l, seanet_kernel_sizes[b], seanet_strides[b]), b + 1)

\* SEANetDecoder::forward: the samples returned for `frames` latent frames
SEANetForwardLen(frames) ==
    CausalConv1dLen(SEANetBlocksLen(CausalConv1dLen(frames, 7, 1, 1), 1), 7, 1, 1)

\* ------------------------------------------------------------ mimi.rs
\* MimiDecoder::forward: the projection keeps the frames, SEANet decodes them
MimiForwardLen(frames) == SEANetForwardLen(frames)

\* Tensor::narrow on a run of samples of one chunk
NarrowOk(seg, start, len) == start <= seg.len /\ start + len <= seg.len
Narrow(seg, start, len) == Samples(seg.chunk, seg.from + start, len)

\* usize::saturating_sub
SaturatingSub(a, b) == IF a >= b THEN a - b ELSE 0

\* decode_streaming, line 110: where the faded part of the previous tail starts
BlendStart_head(prev_len, fade_len) == 0
BlendStart(prev_len, fade_len) == prev_len - fade_len

\* decode_streaming, lines 121 and 131: where the new tail starts
TailStart(total_samples, overlap_samples) == SaturatingSub(total_samples, overlap_samples)

\* a rational weight
Frac(n, d) == [num |-> n, den |-> d]
\* decode_streaming, lines 99-104: the fade curves at index i
FadeIn(i, fade_len) == Frac(i, fade_len)
FadeOut(i, fade_len) == Frac(fade_len - i, fade_len)

\* decode_streaming on the decoded audio of chunk `chunk`. `build` is how
\* `total_samples - overlap_samples` of line 126 behaves when it underflows:
\* a panic with overflow checks, a wrapped start that narrow rejects without
Failed(ret) == [ret |-> ret, out |-> << >>, tail |-> NoTail]
Returned(out, seg) == [ret |-> "ok", out |-> out, tail |-> [some |-> TRUE, seg |-> seg]]
DecodeStreaming(chunk, total_samples, overlap_samples, previous_tail, build) ==
    LET audio == Samples(chunk, 0, total_samples)
    IN  IF previous_tail.some
        THEN LET prev == previous_tail.seg
                 prev_len == prev.len
                 fade_len == Min(Min(overlap_samples, prev_len), total_samples)
             IN  IF fade_len > 0
                 THEN LET prev_start == BlendStart(prev_len, fade_len)
                          prev_overlap == Narrow(prev, prev_start, fade_len)
                          curr_overlap == Narrow(audio, 0, fade_len)
                          blended == Blended(prev_overlap, curr_overlap, fade_len)
                          rest == Narrow(audio, fade_len, total_samples - fade_len)
                          tail_start == TailStart(total_samples, overlap_samples)
                          tail == Narrow(audio, tail_start, total_samples - tail_start)
                      IN  IF /\ NarrowOk(prev, prev_start, fade_len)
                             /\ NarrowOk(audio, 0, fade_len)
                             /\ NarrowOk(audio, fade_len, total_samples - fade_len)
                             /\ NarrowOk(audio, tail_start, total_samples - tail_start)
                          THEN Returned(<<blended, rest>>, tail)
                          ELSE Failed("err")
                 ELSE IF total_samples < overlap_samples
                      THEN Failed(IF build = "debug" THEN "panic" ELSE "err")
                      ELSE Returned(<<audio>>,
                                    Narrow(audio, total_samples - overlap_samples, overlap_samples))
        ELSE LET tail_start == TailStart(total_samples, overlap_samples)
             IN  IF NarrowOk(audio, tail_start, total_samples - tail_start)
                 THEN Returned(<<audio>>, Narrow(audio, tail_start, total_samples - tail_start))
                 ELSE Failed("err")

\* the length of a tensor, and where its sample at index i comes from
RECURSIVE TensorLen(_)
TensorLen(t) == IF t = << >> THEN 0 ELSE Head(t).len + TensorLen(Tail(t))
RECURSIVE SampleAt(_, _)
SampleAt(t, i) ==
    LET seg == Head(t)
    IN  IF i >= seg.len THEN SampleAt(Tail(t), i - seg.len)
        ELSE IF seg.kind = "samples"
        THEN [chunk |-> seg.chunk, idx |-> seg.from + i, weight |-> Frac(1, 1),
              prev_chunk |-> 0, prev_idx |-> 0, prev_weight |-> Frac(0, 1)]
        ELSE [chunk |-> seg.chunk, idx |-> seg.from + i, weight |-> FadeIn(i, seg.fade_len),
              prev_chunk |-> seg.prev_chunk, prev_idx |-> seg.prev_from + i,
              prev_weight |-> FadeOut(i, seg.fade_len)]

\* ------------------------------------- SpecDecoder: SEANetDecoder::forward
DecDone == NumBlocks + 2

DcInit ==
    /\ max_seq_len = max_seq_len_default
    /\ ModelInit
    /\ EngineInit
    /\ voice_count = num_voices
    /\ SamplerIdle /\ ValidateIdle /\ TokIdle /\ FnIdle
    /\ dec_frames \in 1 .. MaxFrames
    /\ dec_stage = 0
    /\ dec_len = dec_frames

\* forward, lines 89-93: transpose, input_conv
DcInputConv ==
    /\ dec_stage = 0
    /\ dec_len' = CausalConv1dLen(dec_len, 7, 1, 1)
    /\ dec_stage' = 1
    /\ UNCHANGED <<dec_frames, flVars, modelVars, engineVars>>
    /\ UNCHANGED <<sampler_num_steps, custom_voice, voice_count, sm_calls, validateVars, tokVars, fnVars>>

\* forward, lines 96-98: the next block
DcBlock ==
    /\ dec_stage \in 1 .. NumBlocks
    /\ dec_len' = DecoderBlockLen(dec_len, seanet_kernel_sizes[dec_stage], seanet_strides[dec_stage])
    /\ dec_stage' = dec_stage + 1
    /\ UNCHANGED <<dec_frames, flVars, modelVars, engineVars>>
    /\ UNCHANGED <<sampler_num_steps, custom_voice, voice_count, sm_calls, validateVars, tokVars, fnVars>>

\* forward, lines 101-107: output_conv, tanh, squeeze
DcOutputConv ==
    /\ dec_stage = NumBlocks + 1
    /\ dec_len' = CausalConv1dLen(dec_len, 7, 1, 1)
    /\ dec_stage' = DecDone
    /\ UNCHANGED <<dec_frames, flVars, modelVars, engineVars>>
    /\ UNCHANGED <<sampler_num_steps, custom_voice, voice_count, sm_calls, validateVars, tokVars, fnVars>>

DcNext == DcInputConv \/ DcBlock \/ DcOutputConv

SpecDecoder == DcInit /\ [][DcNext]_vars

\* --------------------------------- SpecValidate: TTSConfig::validate alone
\* the values of a TTSConfig a caller can build: u32 fields from 0 on, f32
\* fields around the limits of validate() and NaN, any seed
TemperatureVals == {NaN, -1, 0, 10, 11}
TopPVals == {NaN, 0, 1, 10, 11}
SpeedVals == {NaN, 4, 5, 20, 21}
ValidateInputs ==
    [voice_index : 0 .. MaxVoiceIndex, temperature : TemperatureVals, top_p : TopPVals,
     speed : SpeedVals, consistency_steps : 0 .. MaxStepsArg,
     use_fixed_seed : BOOLEAN, seed : {0, 42}]

ValidateInit ==
    /\ v_cfg \in ValidateInputs
    /\ v_ret = "none"

VInit ==
    /\ max_seq_len = max_seq_len_default
    /\ ModelInit
    /\ EngineInit
    /\ voice_count = num_voices
    /\ SamplerIdle /\ TokIdle /\ DecIdle /\ FnIdle
    /\ ValidateInit

VValidate ==
    /\ v_ret = "none"
    /\ v_ret' = Validate(v_cfg)
    /\ UNCHANGED <<v_cfg, flVars, modelVars, engineVars>>
    /\ UNCHANGED <<sampler_num_steps, custom_voice, voice_count, sm_calls, tokVars, decVars, fnVars>>

VNext == VValidate

SpecValidate == VInit /\ [][VNext]_vars

\* every function with a specification of its own starts from an engine
\* and a model that are not called
BaseIdle ==
    /\ max_seq_len = max_seq_len_default
    /\ ModelInit
    /\ EngineInit
    /\ voice_count = num_voices
    /\ SamplerIdle /\ ValidateIdle /\ TokIdle /\ DecIdle
baseVars == <<flVars, modelVars, engineVars, sampler_num_steps, custom_voice, voice_count,
              sm_calls, validateVars, tokVars, decVars>>

\* ------------- SpecExpand: expand_to_seq and the addition in FlowLM::forward
hidden_size == 1024
\* the embeddings from_tensor and from_safetensors can hold: [seq, dim], or
\* [dim] made [1, dim]; the hidden state of a pass is [batch, seq, hidden_size]
VoiceDims ==
    {<<d>> : d \in {256, hidden_size}}
        \cup {<<n, d>> : n \in 1 .. MaxPromptSeq, d \in {256, hidden_size}}

ExInit ==
    /\ BaseIdle
    /\ NormIdle /\ MaskIdle /\ StreamDecIdle /\ ConvIdle /\ WithVoiceIdle
    /\ ex_embedding \in {FromTensor(dims) : dims \in VoiceDims}
    /\ ex_batch \in 1 .. MaxBatch
    /\ ex_seq \in 1 .. MaxSeqArg
    /\ ex_stage = 0 /\ ex_out = << >> /\ ex_sum = "none"

\* FlowLM::forward, line 181
ExExpand ==
    /\ ex_stage = 0
    /\ ex_out' = ExpandToSeq(ex_embedding, ex_batch, ex_seq)
    /\ ex_stage' = 1
    /\ UNCHANGED <<ex_embedding, ex_batch, ex_seq, ex_sum>>
    /\ UNCHANGED <<baseVars, normVars, maskVars, streamDecVars, convVars, withVoiceVars>>

\* FlowLM::forward, line 182
ExAdd ==
    /\ ex_stage = 1
    /\ ex_sum' = TensorAdd(<<ex_batch, ex_seq, hidden_size>>, ex_out)
    /\ ex_stage' = 2
    /\ UNCHANGED <<ex_embedding, ex_batch, ex_seq, ex_out>>
    /\ UNCHANGED <<baseVars, normVars, maskVars, streamDecVars, convVars, withVoiceVars>>

ExNext == ExExpand \/ ExAdd

SpecExpand == ExInit /\ [][ExNext]_vars

\* ------------------------------------------------- SpecNormalize: normalize
\* silence, quiet and loud samples of both signs, and the values 0.95 and 1.0
SampleVals == {-2000, -1000, -500, 0, 50, 300, 950, 1000, 2000}
SampleSeqs == UNION {[1 .. n -> SampleVals] : n \in 0 .. MaxSamples}

NzInit ==
    /\ BaseIdle
    /\ ExpandIdle /\ MaskIdle /\ StreamDecIdle /\ ConvIdle /\ WithVoiceIdle
    /\ nz_in \in SampleSeqs
    /\ nz_out = nz_in
    /\ nz_done = FALSE

NzNormalize ==
    /\ ~nz_done
    /\ nz_out' = Normalize(nz_in)
    /\ nz_done' = TRUE
    /\ UNCHANGED nz_in
    /\ UNCHANGED <<baseVars, expandVars, maskVars, streamDecVars, convVars, withVoiceVars>>

NzNext == NzNormalize

SpecNormalize == NzInit /\ [][NzNext]_vars

\* ------------------------------------------- SpecMask: create_causal_mask
\* forward calls it with q_len = seq_len >= 1 and kv_len = k.dim(2), which is
\* seq_len plus the positions cached before
MkInit ==
    /\ BaseIdle
    /\ ExpandIdle /\ NormIdle /\ StreamDecIdle /\ ConvIdle /\ WithVoiceIdle
    /\ mk_q \in 1 .. MaxMaskQueries
    /\ \E cached \in 0 .. MaxMaskCached : mk_kv = cached + mk_q
    /\ mk_mask = << >>

MkCreate ==
    /\ mk_mask = << >>
    /\ mk_mask' = CreateCausalMask(mk_q, mk_kv)
    /\ UNCHANGED <<mk_q, mk_kv>>
    /\ UNCHANGED <<baseVars, expandVars, normVars, streamDecVars, convVars, withVoiceVars>>

MkNext == MkCreate

SpecMask == MkInit /\ [][MkNext]_vars

\* ------------------------------------------- SpecConv: CausalConv1d::forward
\* a causal convolution of stride 1, as SEANetDecoder builds them
CvInit ==
    /\ BaseIdle
    /\ ExpandIdle /\ NormIdle /\ MaskIdle /\ StreamDecIdle /\ WithVoiceIdle
    /\ cv_len \in 1 .. MaxConvLen
    /\ cv_kernel \in 1 .. MaxKernel
    /\ cv_dilation \in 1 .. MaxDilation
    /\ cv_out = NoConv

CvForward ==
    /\ ~cv_out.done
    /\ cv_out' = CausalConv1dForward(cv_len, cv_kernel, 1, cv_dilation)
    /\ UNCHANGED <<cv_len, cv_kernel, cv_dilation>>
    /\ UNCHANGED <<baseVars, expandVars, normVars, maskVars, streamDecVars, withVoiceVars>>

CvNext == CvForward

SpecConv == CvInit /\ [][CvNext]_vars

\* ------------------------------- SpecStreamDecode: decode_streaming, call after call
\* synthesize_streaming's overlap, 50 ms of audio
sample_rate == 24000
overlap_samples_50ms == (sample_rate * 5) \div 100
\* the overlaps a caller passes, and the latent frames of a chunk
OverlapVals == {0, 400, overlap_samples_50ms}
FrameCounts == 1 .. MaxChunkFrames

SdInit ==
    /\ BaseIdle
    /\ ExpandIdle /\ NormIdle /\ MaskIdle /\ ConvIdle /\ WithVoiceIdle
    /\ sd_tail = NoTail
    /\ sd_n = 0
    /\ sd_last = NoDecode

\* one iteration of the loop of synthesize_streaming, lines 198-204: the call
\* and `previous_tail = Some(tail)`; an error ends the loop
SdDecode(frames, overlap, build) ==
    /\ sd_n < MaxDecodeCalls
    /\ sd_last.ret \in {"none", "ok"}
    /\ LET total == MimiForwardLen(frames)
           r == DecodeStreaming(sd_n, total, overlap, sd_tail, build)
       IN  /\ sd_last' = [done |-> TRUE, ret |-> r.ret, first |-> ~sd_tail.some, chunk |-> sd_n,
                          total_samples |-> total, prev |-> sd_tail.seg,
                          overlap_samples |-> overlap, out |-> r.out, tail |-> r.tail]
           /\ sd_tail' = IF r.ret = "ok" THEN r.tail ELSE sd_tail
    /\ sd_n' = sd_n + 1
    /\ UNCHANGED <<baseVars, expandVars, normVars, maskVars, convVars, withVoiceVars>>

SdNext ==
    \E frames \in FrameCounts : \E overlap \in OverlapVals : \E build \in {"debug", "release"} :
        SdDecode(frames, overlap, build)

SpecStreamDecode == SdInit /\ [][SdNext]_vars

\* ------------------------------------------------------------------ claims

\* the attention inputs of position g in one pass over the tokens 0 .. n-1
OneShotView(n, g) == AttentionView(KVCacheClear, 0, n, FALSE, g)

\* what attention computes with: the token and, per head, the table row
\* that rotated the vector
Rotated(e) == [tok |-> e.tok, row |-> [h \in Heads |-> RowForHeadTok(e.off, h, e.idx)]]

AttnInputs(view) == [q |-> Rotated(view.q), keys |-> {Rotated(e) : e \in view.keys}]

\* C1: in a cached run of any chunking in which no pass failed, every position
\* gets the attention inputs (visible keys, rotary row of the query and of
\* every key) that one pass over the whole sequence gives it.
C1_ChunkedEqualsOneShot ==
    ~fl_failed => \A l \in Layers : \A g \in 1 .. Len(fl_views[l]) :
        AttnInputs(fl_views[l][g]) = AttnInputs(OneShotView(Len(fl_views[l]), g - 1))

\* C2: every layer's cache is empty right after reset_cache(), and holds as
\* many positions as the successful cached passes since the last reset
\* processed; passes without cache do not change it.
C2_CacheLenIsSum ==
    /\ fl_last = "reset" => \A l \in Layers : KVCacheSeqLen(kv_caches[l]) = 0
    /\ ~fl_failed => \A l \in Layers : KVCacheSeqLen(kv_caches[l]) = fl_sum

C2_Witness ==
    /\ fl_last = "forward_nocache"
    /\ ~fl_failed
    /\ fl_sum >= 3
    /\ Len(kv_caches[0]) >= 2
    /\ KVCacheSeqLen(kv_caches[num_layers - 1]) = fl_sum

\* the tokens a concatenation of key tensors holds, in order
CachedToks(kv) == [j \in 1 .. KVCacheSeqLen(kv) |-> KeySeq(kv)[j].tok]

\* C3: every synthesis call clears the caches before its first forward pass:
\* the first pass of a call finds every cache empty, and the pass over chunk
\* k of a streaming call finds exactly the tokens of chunks 0 .. k-1 of that
\* call, also after calls that a stop or an error ended early.
C3_SessionStartsClean ==
    st_pass.count >= 1 =>
        /\ st_pass.count = 1 => \A l \in Layers : st_pass.seen[l] = << >>
        /\ \A l \in Layers :
              CachedToks(st_pass.seen[l]) = [j \in 1 .. st_pass.chunk * chunk_size |-> j - 1]

C3_Witness ==
    /\ st_prev
    /\ st_kind = "stream"
    /\ st_pass.count = 2
    /\ st_pass.chunk = 1
    /\ KVCacheSeqLen(st_pass.seen[0]) = chunk_size

CeilDiv(n, d) == IF n % d = 0 THEN n \div d ELSE (n \div d) + 1

\* C4: a streaming call on n tokens in which the callback always continues
\* and no step fails invokes the callback ceil(n/32) times, invocation k
\* with the audio of tokens 32k .. min(32k+32, n)-1, in order, and every
\* token is in exactly one chunk.
C4_OneCallbackPerChunk ==
    (st_kind = "stream" /\ st_end = "completed") =>
        /\ Len(st_calls) = CeilDiv(st_n, chunk_size)
        /\ \A k \in 1 .. Len(st_calls) :
              /\ st_calls[k].chunk = k - 1
              /\ st_calls[k].first = chunk_size * (k - 1)
              /\ st_calls[k].last = (IF chunk_size * k < st_n THEN chunk_size * k ELSE st_n) - 1
        /\ \A tok \in 0 .. (st_n - 1) :
              Cardinality({k \in 1 .. Len(st_calls) :
                              st_calls[k].first <= tok /\ tok <= st_calls[k].last}) = 1

C4_Witness ==
    /\ st_kind = "stream"
    /\ st_end = "completed"
    /\ st_n = chunk_size + 1
    /\ Len(st_calls) = 2

Completes == Cardinality({j \in DOMAIN h_events : h_events[j].ev = "complete"})
Errors == Cardinality({j \in DOMAIN h_events : h_events[j].ev = "error"})
IsChunkEvent(e) == e.ev = "chunk"
ChunkEvents == SelectSeq(h_events, IsChunkEvent)

\* C5: in a start_streaming call that runs to completion, the last callback
\* invocation and only the last has is_final = true, and the handler gets
\* on_complete exactly once.
C5_FinalOnLastOnly ==
    (st_kind = "stream" /\ st_end = "completed") =>
        /\ \A k \in 1 .. Len(st_calls) : st_calls[k].is_final <=> (k = Len(st_calls))
        /\ Completes = 1

\* C6: when the callback returns stop for a chunk, the call makes no further
\* forward pass and no further callback invocation and returns Ok.
C6_StopEndsLoop ==
    \A k \in 1 .. Len(st_calls) :
        ~st_calls[k].ret =>
            /\ k = Len(st_calls)
            /\ st_pass.count = k
            /\ ~st_active
            /\ st_end = "stopped"
            /\ result = "Ok"

C6_Witness ==
    /\ st_end = "stopped"
    /\ Len(st_calls) = 1
    /\ ~st_calls[1].ret
    /\ ~st_calls[1].is_final
    /\ HasChunk(st_n, 1)

\* C7: after cancel() during a start_streaming call, no audio chunk later
\* than the one in generation at the time of the call reaches the handler.
C7_CancelStopsAtBoundary ==
    cancel_at >= 0 => \A j \in 1 .. Len(ChunkEvents) : ChunkEvents[j].chunk <= cancel_at

\* C8: when a step of a chunk fails, every layer's cache is empty when
\* synthesize_streaming has returned.
C8_CachesClearedOnError ==
    (st_kind = "stream" /\ st_end = "failed") =>
        \A l \in Layers : KVCacheSeqLen(kv_caches[l]) = 0

\* C9: when a step fails for chunk k of a start_streaming call, the callback
\* has been invoked for the chunks 0 .. k-1 and no other, these chunks have
\* reached the handler, the call returns the error, and the handler gets
\* on_error once, as its last call, and never on_complete.
C9_ErrorAbortsLoop ==
    (st_kind = "stream" /\ st_end = "failed") =>
        /\ ~st_active
        /\ result = "InferenceFailed"
        /\ Len(st_calls) = st_i
        /\ \A k \in 1 .. Len(st_calls) : st_calls[k].chunk = k - 1
        /\ Len(ChunkEvents) = st_i
        /\ \A k \in 1 .. Len(ChunkEvents) : ChunkEvents[k].chunk = k - 1
        /\ Errors = 1
        /\ h_events[Len(h_events)].ev = "error"
        /\ Completes = 0

C9_Witness ==
    /\ st_kind = "stream"
    /\ st_end = "failed"
    /\ st_i = 1
    /\ Len(ChunkEvents) = 1
    /\ Errors = 1

\* C10: a configure call with an invalid configuration returns InvalidConfig
\* and changes nothing: no stored configuration is ever invalid, and after
\* configure calls made one after the other the engine's and the model's
\* configuration are the argument of the last call that passed validation.
C10_InvalidConfigNotApplied ==
    /\ (cfg_ret.result # "none" /\ ~cfg_ret.valid) => cfg_ret.result = "InvalidConfig"
    /\ (cfg_ret.result # "none" /\ cfg_ret.valid) => cfg_ret.result = "Ok"
    /\ Validate(config) = "Ok"
    /\ Validate(model_config) = "Ok"
    /\ (cfg_seq /\ \A t \in Threads : ~InConfigure(t)) =>
          /\ config = last_valid
          /\ model_loaded => model_config = last_valid

C10_Witness ==
    /\ cfg_seq
    /\ \A t \in Threads : ~InConfigure(t)
    /\ model_loaded
    /\ cfg_ret = [valid |-> FALSE, result |-> "InvalidConfig"]
    /\ config # DefaultConfig
    /\ model_config = config

\* what the documented ranges say of a value: a NaN lies in no range
InRange(x, lo, hi) == x # NaN /\ lo <= x /\ x <= hi
FieldOk(c) ==
    [voice |-> c.voice_index <= 7,
     temperature |-> InRange(c.temperature, 0, 10),
     top_p |-> InRange(c.top_p, 1, 10),
     speed |-> InRange(c.speed, 5, 20),
     steps |-> 1 <= c.consistency_steps /\ c.consistency_steps <= 4]
FieldName ==
    [voice |-> "Voice index", temperature |-> "Temperature", top_p |-> "Top-P",
     speed |-> "Speed", steps |-> "Consistency steps"]

\* C11: validate() succeeds exactly when every field is within its range
\* (bounds inclusive, any seed), and when exactly one field is out of range
\* it fails with the message that names this field.
C11_ValidateExact ==
    v_ret # "none" =>
        /\ (v_ret = "Ok") <=> (\A f \in DOMAIN FieldName : FieldOk(v_cfg)[f])
        /\ \A f \in DOMAIN FieldName :
              (~FieldOk(v_cfg)[f] /\ \A g \in DOMAIN FieldName \ {f} : FieldOk(v_cfg)[g])
                  => v_ret = FieldName[f]

\* C12: a forward pass fails with the range error exactly when the positions
\* already cached plus the new tokens exceed max_seq_len.
C12_RangeErrorIffTooLong ==
    (fl_pass.done /\ fl_pass.clean) =>
        (fl_pass.range_error <=> (fl_pass.cached + fl_pass.new > max_seq_len))

\* C13: a synthesis runs the sampler for as many rounds as the configuration
\* in force has consistency_steps, each round on the output of the one before.
C13_RoundsFollowConfig ==
    st_rounds.rounds # << >> =>
        /\ Len(st_rounds.rounds) = st_rounds.steps
        /\ \A k \in 1 .. Len(st_rounds.rounds) :
              st_rounds.rounds[k].input = (IF k = 1 THEN 0 ELSE st_rounds.rounds[k - 1].output)

\* C19: a synthesis called while a custom voice is set is conditioned on this
\* embedding whatever voice_index is configured; one called when none is set
\* (never set, or cleared) is conditioned on the bank entry at voice_index.
C19_CustomVoiceOverrides ==
    st_kind \in {"oneshot", "stream"} =>
        /\ st_voice.custom # NoVoice => st_voice.voice = st_voice.custom
        /\ (st_voice.custom = NoVoice /\ st_voice.index < voice_count) =>
              st_voice.voice = [kind |-> "bank", index |-> st_voice.index]

C19_Witness ==
    /\ st_kind = "stream"
    /\ st_end = "completed"
    /\ Len(st_calls) = 2
    /\ st_voice.custom \in CustomVoices
    /\ st_voice.index = 7
    /\ voice_count = num_voices
    /\ custom_voice = NoVoice

\* C20: a synthesis whose voice_index is outside the loaded bank, with no
\* custom voice set, fails with the invalid-voice error.
C20_InvalidVoiceRejected ==
    ( /\ st_kind \in {"oneshot", "stream"}
      /\ st_end \in {"completed", "stopped", "failed"}
      /\ st_voice.custom = NoVoice
      /\ st_voice.index >= voice_count ) => result = "InvalidVoice"

\* C14: set_num_steps(n) stores n clamped into [1,4], so the sampler's round
\* count is within [1,4] after any sequence of calls.
C14_StepsClamped ==
    /\ 1 <= sampler_num_steps /\ sampler_num_steps <= 4
    /\ sm_calls # << >> =>
          LET n == sm_calls[Len(sm_calls)]
          IN  sampler_num_steps = (IF n < 1 THEN 1 ELSE IF n > 4 THEN 4 ELSE n)

C14_Witness ==
    /\ Len(sm_calls) >= 2
    /\ sm_calls[1] = 0
    /\ sm_calls[Len(sm_calls)] = 5
    /\ sampler_num_steps = 4

\* the length of the longest vocabulary entry of at most 10 chars that
\* matches the text from position i on (0: none matches)
LongestEntryLen(v, chars, i) ==
    LET c == {n \in 1 .. 10 : i + n <= Len(chars) /\ SubSeq(chars, i + 1, i + n) \in DOMAIN v}
    IN  IF c = {} THEN 0 ELSE CHOOSE n \in c : \A m \in c : m <= n

\* the ids of the greedy longest-match scan from position i on
RECURSIVE GreedyIds(_, _, _)
GreedyIds(v, chars, i) ==
    IF i >= Len(chars) THEN << >>
    ELSE LET n == LongestEntryLen(v, chars, i)
         IN  IF n = 0 THEN <<UnkId(v)>> \o GreedyIds(v, chars, i + 1)
             ELSE <<v[SubSeq(chars, i + 1, i + n)]>> \o GreedyIds(v, chars, i + n)

\* C15: encode returns the begin id (when "<s>" is defined), the ids of the
\* greedy scan that takes at each position the longest vocabulary entry of
\* at most 10 chars (the unknown id where none matches), and the end id
\* (when "</s>" is defined); "hello world" gives [1,3,4,5,2] with the
\* vocabulary {<unk>:0, <s>:1, </s>:2, hello:3, space:4, world:5}.
C15_EncodeGreedy ==
    tk_pc \in {"done", "decoded"} =>
        /\ tk_tokens = (IF BOS \in DOMAIN tk_vocab THEN <<tk_vocab[BOS]>> ELSE << >>)
                        \o GreedyIds(tk_vocab, tk_text, 0)
                        \o (IF EOS \in DOMAIN tk_vocab THEN <<tk_vocab[EOS]>> ELSE << >>)
        /\ (tk_vocab = VocabJson /\ tk_text = HelloWorld) => tk_tokens = <<1, 3, 4, 5, 2>>

C15_Witness ==
    /\ tk_pc = "done"
    /\ tk_vocab = VocabLong
    /\ tk_text = HelloWorld
    /\ tk_tokens = <<1, 3, 4, 5, 2>>

\* C16: encode ends with Ok on every text and vocabulary: every iteration of
\* the scan starts where the one before ended, consumes at least one char
\* and pushes one id, so there are at most as many iterations as chars and
\* the scan ends at the end of the text; where no vocabulary entry matches,
\* the iteration pushes the unknown id and advances by exactly one char.
C16_EncodeTotal ==
    /\ tk_i <= Len(tk_text)
    /\ Len(tk_steps) <= Len(tk_text)
    /\ \A k \in 1 .. Len(tk_steps) :
          /\ tk_steps[k].pos = (IF k = 1 THEN 0 ELSE tk_steps[k - 1].next)
          /\ tk_steps[k].next > tk_steps[k].pos
          /\ tk_steps[k].pushed = 1
          /\ LongestEntryLen(tk_vocab, tk_text, tk_steps[k].pos) = 0 =>
                /\ tk_steps[k].id = UnkId(tk_vocab)
                /\ tk_steps[k].next = tk_steps[k].pos + 1
    /\ tk_steps # << >> => tk_i = tk_steps[Len(tk_steps)].next
    /\ tk_pc \in {"done", "decoded"} => tk_i = Len(tk_text)

C16_Witness ==
    /\ tk_pc = "done"
    /\ tk_vocab = VocabMerges
    /\ tk_text = <<"a", "?", "s">>
    /\ Len(tk_steps) = 3
    /\ ~tk_steps[2].found
    /\ tk_tokens = <<1, 4, 0, 5, 2>>

\* C17: decode(encode(text)) = text for every text whose chars are each a
\* token of the vocabulary, the vocabulary defining its four special tokens.
C17_RoundTrip ==
    ( /\ tk_pc = "decoded"
      /\ {BOS, EOS, PAD, UNK} \subseteq DOMAIN tk_vocab
      /\ \A k \in 1 .. Len(tk_text) : <<tk_text[k]>> \in DOMAIN tk_vocab ) =>
        tk_decoded = tk_text

\* C18: for L latent frames the decoder emits L x R samples, R the product
\* of all configured strides.
C18_SamplesPerFrame ==
    dec_stage = DecDone => dec_len = dec_frames * UpsamplingRatio

\* C21: expand_to_seq(batch_size, seq_len) returns [batch_size, seq_len, dim]
\* for every batch_size >= 1 and seq_len >= 1, so the embedding can be added
\* to the hidden state of every position of the pass.
C21_ExpandShape ==
    /\ ex_stage >= 1 => ex_out = <<ex_batch, ex_seq, ex_embedding[Len(ex_embedding)]>>
    /\ (ex_stage = 2 /\ ex_embedding[Len(ex_embedding)] = hidden_size) => ex_sum = "ok"

\* C22: normalize rescales every input with a non-zero sample so that its
\* peak absolute value is 0.95 within 0.01, and leaves an all-zero input
\* all-zero.
C22_NormalizePeak ==
    nz_done =>
        IF \A k \in 1 .. Len(nz_in) : nz_in[k] = 0
        THEN nz_out = nz_in
        ELSE /\ Len(nz_out) = Len(nz_in)
             /\ Abs(MaxAbs(nz_out) - 950) <= 10

\* C23: the causal mask for q_len queries over kv_len >= q_len keys lets
\* query i attend key j exactly when j <= i + (kv_len - q_len): every position
\* cached before the chunk and the chunk's own positions up to and including
\* i, and no later position.
C23_CausalMask ==
    mk_mask # << >> =>
        LET cached == mk_kv - mk_q
        IN  /\ Len(mk_mask) = mk_q * mk_kv
            /\ \A i \in 0 .. mk_q - 1 : \A j \in 0 .. mk_kv - 1 :
                  Attends(mk_mask, mk_kv, i, j) <=> (j < cached \/ j - cached <= i)

C23_Witness ==
    /\ mk_mask # << >>
    /\ mk_q >= 3
    /\ mk_kv >= mk_q + 2
    /\ Attends(mk_mask, mk_kv, 1, mk_kv - mk_q + 1)
    /\ ~Attends(mk_mask, mk_kv, 1, mk_kv - mk_q + 2)

\* C24: the query and the key of the token at index i of a chunk are rotated
\* with the table row c + i, c being the cache length before the chunk; the
\* row depends on the token's place in the sequence only, not on the head.
C24_RotationByPosition ==
    \A l \in Layers : \A g \in 1 .. Len(fl_views[l]) :
        LET view == fl_views[l][g]
        IN  \A e \in {view.q} \cup view.keys : \A h \in Heads :
                Rotated(e).row[h] = e.off + e.idx

\* C27: a causal convolution of stride 1 returns an output as long as its
\* input for every kernel size and dilation, and its output at position t
\* depends only on input positions <= t.
C27_CausalConv ==
    cv_out.done =>
        /\ cv_out.ok
        /\ cv_out.len = cv_len
        /\ \A t \in 0 .. cv_len - 1 : \A p \in cv_out.reads[t + 1] : p <= t

C27_Witness ==
    /\ cv_out.done /\ cv_out.ok
    /\ cv_kernel = 3 /\ cv_dilation = 2 /\ cv_len = 6
    /\ cv_out.reads[6] = {1, 3, 5}
    /\ cv_out.reads[1] = {0}

\* the sample at index i of the decoded audio of chunk c, as decoded
Decoded(c, i) ==
    [chunk |-> c, idx |-> i, weight |-> Frac(1, 1),
     prev_chunk |-> 0, prev_idx |-> 0, prev_weight |-> Frac(0, 1)]

C26_TailOfChunk ==
    sd_last.done =>
        LET T == sd_last.total_samples
            n == Min(sd_last.overlap_samples, T)
        IN  /\ sd_last.ret = "ok"
            /\ sd_last.tail = [some |-> TRUE, seg |-> Samples(sd_last.chunk, T - n, n)]
            /\ sd_last.first => sd_last.out = <<Samples(sd_last.chunk, 0, T)>>

\* C30: whenever no configure call is in progress and a model is loaded,
\* get_config() returns the configuration active in the model, whatever
\* configure calls ran before, concurrent ones included.
C30_ConfigMatchesModel ==
    (model_loaded /\ \A t \in Threads : ~InConfigure(t)) => config = model_config

\* a thread holds the model for a session: between taking the model mutex
\* and the end of the last forward pass of its call
InSession(t) == pc[t] \in {"synth", "wv_run", "streaming"}

\* C28: for any interleaving of concurrent synthesize, synthesize_with_voice
\* and start_streaming calls, at most one session at a time uses the model:
\* the cache reset and the forward passes of a session run with no reset or
\* pass of another session in between.
C28_OneSessionAtATime ==
    /\ \A t \in Threads : \A u \in Threads : (InSession(t) /\ InSession(u)) => t = u
    /\ \A t \in Threads : InSession(t) => model_lock = t
    /\ st_active => \E t \in Threads : pc[t] = "streaming" /\ model_lock = t

C28_Witness ==
    \E t \in Threads : \E u \in Threads \ {t} :
        /\ pc[t] = "streaming" /\ st_active /\ st_i = 1
        /\ pc[u] \in {"wv_synth", "stream_lock"}

====
